---------------------------- MODULE Spec2Model ----------------------------
(***************************************************************************)
(* Task orchestration and artifact cache of the jmcomic download server   *)
(* (app/tasks.py, app/storage.py, app/downloader.py, app/models.py).      *)
(*                                                                         *)
(* Conventions.  Python None is written NoneStr for Optional[str] fields  *)
(* and NoneInt for Optional[int] fields.  A Python str that holds an      *)
(* album id is a sequence of digit characters, so that str() and sorted() *)
(* are computed, not assumed.  Progress values are floats in the source;  *)
(* here they are integers in units of 1/10000 (0.99 is 9900).             *)
(***************************************************************************)
EXTENDS Integers, Sequences, FiniteSets, TLC

(***************************************************************************)
(* Bounds of the model.                                                    *)
(***************************************************************************)
MaxEarlier == 1    \* requests an earlier process completed before this one started
MaxIds == 2        \* longest album id list drawn for the cache-key check
MaxImages == 3     \* most image events of one album drawn for the order check
MaxCalls == 2      \* most calls of put_artifact with the same arguments
MaxProgress == 2   \* progress callbacks of one worker followed through Storage
MaxLegacyTasks == 3   \* tasks submitted to the legacy server
MaxDay == 2        \* days the legacy server runs through

(***************************************************************************)
(* Python values.                                                          *)
(***************************************************************************)
NoneStr == "<None>"
NoneInt == -1

Digits == <<"0", "1", "2", "3", "4", "5", "6", "7", "8", "9">>

Ord(c) == CHOOSE i \in 1..Len(Digits) : Digits[i] = c

\* an album id as the request carries it: an int or a str
IntId(n) == [tag |-> "int", n |-> n, s |-> <<>>]
StrId(s) == [tag |-> "str", n |-> 0, s |-> s]

RECURSIVE IntToStr(_)
IntToStr(n) ==
    IF n < 10 THEN <<Digits[n + 1]>>
    ELSE IntToStr(n \div 10) \o <<Digits[(n % 10) + 1]>>

\* str(a) for a: Union[int, str]
Str(a) == IF a.tag = "int" THEN IntToStr(a.n) ELSE a.s

\* Python's order on str: lexicographic by code point, a proper prefix first
RECURSIVE StrLess(_, _)
StrLess(a, b) ==
    IF b = <<>> THEN FALSE
    ELSE IF a = <<>> THEN TRUE
    ELSE IF Ord(Head(a)) < Ord(Head(b)) THEN TRUE
    ELSE IF Ord(Head(a)) > Ord(Head(b)) THEN FALSE
    ELSE StrLess(Tail(a), Tail(b))

RECURSIVE Insert(_, _)
Insert(x, s) ==
    IF s = <<>> THEN <<x>>
    ELSE IF StrLess(x, Head(s)) THEN <<x>> \o s
    ELSE <<Head(s)>> \o Insert(x, Tail(s))

RECURSIVE sorted(_)
sorted(s) == IF s = <<>> THEN <<>> ELSE Insert(Head(s), sorted(Tail(s)))

SeqMap(F(_), s) == [i \in 1..Len(s) |-> F(s[i])]

\* `x or ""' on an Optional[str]
OrEmpty(x) == IF x = NoneStr THEN "" ELSE x

(***************************************************************************)
(* TaskRequest (app/models.py).  A raw request names the fields the caller *)
(* left out; the model constructor fills them with the field defaults.     *)
(***************************************************************************)
OptionalFields ==
    {"output_format", "quality", "encrypt", "password", "compression",
     "cache", "proxy", "option_file"}

FieldDefault ==
    [output_format |-> "zip", quality |-> NoneInt, encrypt |-> FALSE,
     password |-> NoneStr, compression |-> 6, cache |-> TRUE,
     proxy |-> NoneStr, option_file |-> NoneStr]

TaskRequest(raw) ==
    [f \in OptionalFields |->
        IF f \in raw.omitted THEN FieldDefault[f] ELSE raw[f]]
    @@ [album_ids |-> raw.album_ids]

(***************************************************************************)
(* Cache key (TaskManager.submit lines 46-57, Storage.cache_key).          *)
(***************************************************************************)
\* hashlib.sha256(x).hexdigest(): a digest that is a value of its own kind
\* and differs for different inputs
Sha256Hex(x) == <<"sha256", x>>

\* cache_payload with line 48 keeping the ids in the order of the request
cache_payload_unsorted(req) ==
    [album_ids |-> SeqMap(Str, req.album_ids),
     output_format |-> req.output_format,
     quality |-> req.quality,
     encrypt |-> req.encrypt,
     password |-> OrEmpty(req.password),
     compression |-> req.compression,
     proxy |-> OrEmpty(req.proxy),
     option_file |-> OrEmpty(req.option_file)]

cache_payload(req) ==
    [album_ids |-> sorted(SeqMap(Str, req.album_ids)),
     output_format |-> req.output_format,
     quality |-> req.quality,
     encrypt |-> req.encrypt,
     password |-> OrEmpty(req.password),
     compression |-> req.compression,
     proxy |-> OrEmpty(req.proxy),
     option_file |-> OrEmpty(req.option_file)]

\* cache_blob with lines 65-67 left out: the payload is hashed as it is
cache_blob_plaintext(payload) == payload

\* the dict `safe' that is serialised with sort_keys=True and hashed
cache_blob(payload) ==
    [f \in (DOMAIN payload \ {"password"}) \cup {"password_hash"} |->
        IF f = "password_hash" THEN Sha256Hex(payload.password)
        ELSE payload[f]]

cache_key(payload) == Sha256Hex(cache_blob(payload))

KeyOf(raw) == cache_key(cache_payload(TaskRequest(raw)))

(***************************************************************************)
(* Requests submitted to the server in the state machine.                  *)
(***************************************************************************)
AllGiven ==
    [output_format |-> "zip", quality |-> NoneInt, encrypt |-> FALSE,
     password |-> NoneStr, compression |-> 6, cache |-> TRUE,
     proxy |-> NoneStr, option_file |-> NoneStr, omitted |-> {}]

RawRequest(ids, fmt, q) ==
    [AllGiven EXCEPT !.output_format = fmt, !.quality = q]
    @@ [album_ids |-> ids]

\* an archive of albums 2 and 1 and a document of album 1
ReqSet ==
    {RawRequest(<<IntId(2), IntId(1)>>, "zip", NoneInt),
     RawRequest(<<StrId(<<"1">>)>>, "pdf", 80)}

(***************************************************************************)
(* State.                                                                  *)
(***************************************************************************)
VARIABLES
    tasks,        \* Storage._tasks: task id -> TaskRecord (ids are 1..Len)
    dedup,        \* TaskManager._dedup: cache key -> task id
    cacheFiles,   \* files of cache_dir: <<key, suffix>> for "<key>.<suffix>"
    body,         \* per task id: the _run_task coroutine and its worker thread
    album_locks,  \* Downloader._album_locks: album id -> lock object
    held,         \* the lock objects that are currently acquired
    kA, kB, kOut, \* checks of one computation: its inputs and its result
    store_lock,   \* Storage._lock: "free" or the thread that holds it
    state_file,   \* the content of the state file (tasks_state_path)
    calls         \* per thread: the Storage call it is in, statement by statement

rvars == <<store_lock, state_file, calls>>
kvars == <<kA, kB, kOut, store_lock, state_file, calls>>
svars == <<tasks, dedup, cacheFiles, body, album_locks, held>>
vars == <<tasks, dedup, cacheFiles, body, album_locks, held,
        kA, kB, kOut, store_lock, state_file, calls>>

NoCalls == <<>>

\* no thread is followed through Storage
RIdle ==
    /\ store_lock = "free"
    /\ state_file = NoCalls
    /\ calls = NoCalls


(***************************************************************************)
(* Task records (TaskManager._task_state, Storage).                        *)
(***************************************************************************)
NoPath == <<>>          \* artifact_path: None
NoRequest == <<>>       \* the record has no "request" and no "cache_key" entry
NoLock == <<>>

\* the record _task_state creates for an id that has none
NewState ==
    [status |-> "queued", progress |-> 0, artifact_path |-> NoPath,
     error |-> NoneStr, request |-> NoRequest, cache_key |-> NoRequest]

TaskIds == DOMAIN tasks

\* uuid.uuid4().hex: an id no record has yet
FreshId == Len(tasks) + 1

Max2(a, b) == IF a >= b THEN a ELSE b
Min2(a, b) == IF a <= b THEN a ELSE b

\* TaskManager._run_task.progress_cb: the new value of the task map
progress_cb(t, p) ==
    [tasks EXCEPT ![t].progress = Max2(0, Min2(9900, p))]

\* Storage.cached_artifact: the files of cache_dir that match "<key>.*"
cached_artifact(key) == {f \in cacheFiles : f[1] = key}

\* the dict a lookup of key reads: dedup.get(key)
DedupKeys == {e[1] : e \in dedup}
DedupGet(key) == (CHOOSE e \in dedup : e[1] = key)[2]
DedupPut(key, t) == {e \in dedup : e[1] # key} \cup {<<key, t>>}

\* images: "some" once images_by_album holds an image (and, after line 398,
\* once `selected' holds one), "none" while it holds nothing
IdleBody ==
    [pc |-> "none", idx |-> 0, lock |-> NoLock, images |-> "none"]

(***************************************************************************)
(* TaskManager.submit                                                      *)
(***************************************************************************)
\* the requests of ReqSet with either value of the cache-use flag
Requests == {TaskRequest([raw EXCEPT !.cache = c]) : raw \in ReqSet, c \in BOOLEAN}

\* line 57: the key of each request of Requests, computed once
KeyTable == [req \in Requests |-> cache_key(cache_payload(req))]

\* line 57: cache_key = self.storage.cache_key(cache_payload), read from
\* KeyTable for the requests it holds and computed for any other
KeyFor(req) ==
    IF req \in DOMAIN KeyTable THEN KeyTable[req]
    ELSE cache_key(cache_payload(req))

\* SubmitBranch without the lookup of line 78
SubmitBranch_nodedup(req) ==
    LET key == KeyFor(req)
    IN  IF req.cache /\ cached_artifact(key) # {} THEN "cache_hit"
        ELSE "new"

\* SubmitBranch without the lookup of line 60
SubmitBranch_nocache(req) ==
    LET key == KeyFor(req)
    IN  IF key \in DedupKeys THEN "dedup_hit"
        ELSE "new"

\* the branch submit takes: lines 60-61, 78, 83
SubmitBranch(req) ==
    LET key == KeyFor(req)
    IN  IF req.cache /\ cached_artifact(key) # {} THEN "cache_hit"
        ELSE IF key \in DedupKeys THEN "dedup_hit"
        ELSE "new"

\* SubmitTaskId with line 63 taking a new id without the lookup in _dedup
SubmitTaskId_fresh(req) ==
    LET key == KeyFor(req)
    IN  IF SubmitBranch(req) = "dedup_hit" THEN DedupGet(key)
        ELSE FreshId

\* the task id submit answers with: lines 63, 79, 84
SubmitTaskId(req) ==
    LET key == KeyFor(req)
    IN  IF SubmitBranch(req) = "new" THEN FreshId
        ELSE IF key \in DedupKeys THEN DedupGet(key)
        ELSE FreshId

\* the SubmitResponse returned: lines 75, 81, 93
submit_response(req) ==
    LET task_id == SubmitTaskId(req)
        branch == SubmitBranch(req)
    IN  [task_id |-> task_id,
         status |-> IF branch = "cache_hit" THEN "completed"
                    ELSE IF branch = "dedup_hit" THEN tasks[task_id].status
                    ELSE "queued",
         duplicate |-> branch # "new"]

\* SubmitCacheHit without the artifact_path entry of line 71
SubmitCacheHit_nopath(key, task_id, entry) ==
    LET state == IF task_id \in TaskIds THEN tasks[task_id] ELSE NewState
        new == [state EXCEPT !.status = "completed", !.progress = 10000]
    IN  /\ dedup' = DedupPut(key, task_id)
        /\ tasks' = IF task_id \in TaskIds
                    THEN [tasks EXCEPT ![task_id] = new]
                    ELSE Append(tasks, new)
        /\ body' = IF task_id \in TaskIds THEN body ELSE Append(body, IdleBody)

\* lines 59-75: the artifact exists; synthesise or overwrite a completed task
SubmitCacheHit(key, task_id, entry) ==
    LET state == IF task_id \in TaskIds THEN tasks[task_id] ELSE NewState
        new == [state EXCEPT !.status = "completed", !.progress = 10000,
                             !.artifact_path = entry]
    IN  /\ dedup' = DedupPut(key, task_id)
        /\ tasks' = IF task_id \in TaskIds
                    THEN [tasks EXCEPT ![task_id] = new]
                    ELSE Append(tasks, new)
        /\ body' = IF task_id \in TaskIds THEN body ELSE Append(body, IdleBody)

\* lines 77-81: a task is registered under the key
SubmitDedupHit(task_id) ==
    /\ task_id \in TaskIds
    /\ UNCHANGED <<tasks, dedup, body>>

\* SubmitNew without the registration of line 85
SubmitNew_noreg(key, task_id, req) ==
    /\ dedup' = dedup
    /\ tasks' = Append(tasks, [NewState EXCEPT !.request = <<req>>,
                                               !.cache_key = <<key>>])
    /\ body' = Append(body, [IdleBody EXCEPT !.pc = "queued"])

\* lines 83-93: a new record and a scheduled _run_task
SubmitNew(key, task_id, req) ==
    /\ dedup' = DedupPut(key, task_id)
    /\ tasks' = Append(tasks, [NewState EXCEPT !.request = <<req>>,
                                               !.cache_key = <<key>>])
    /\ body' = Append(body, [IdleBody EXCEPT !.pc = "queued"])

submit(req) ==
    LET key == KeyFor(req)
        task_id == SubmitTaskId(req)
        branch == SubmitBranch(req)
    IN  /\ IF branch = "cache_hit"
           THEN \E entry \in cached_artifact(key) :
                    SubmitCacheHit(key, task_id, entry)
           ELSE IF branch = "dedup_hit"
                THEN SubmitDedupHit(task_id)
                ELSE SubmitNew(key, task_id, req)
        /\ UNCHANGED <<cacheFiles, album_locks, held>>
        /\ UNCHANGED kvars


Submit == \E req \in Requests : submit(req)

(***************************************************************************)
(* TaskManager._run_task and Downloader.download_and_package.  The         *)
(* coroutine runs on the event loop (StartTask and the Finish steps); all        *)
(* between runs in a worker thread (asyncio.to_thread) and interleaves     *)
(* with the other threads statement by statement.                          *)
(***************************************************************************)
\* the req argument of _run_task: the request submit stored in the record
\* (line 87) when it scheduled the coroutine
Req(t) == tasks[t].request[1]

\* params.album_ids / album_ids: [str(a) for a in req.album_ids]
Albums(t) == SeqMap(Str, Req(t).album_ids)

Aid(t) == Albums(t)[body[t].idx]

LockedAlbums == {e[1] : e \in album_locks}
LockGet(aid) ==
    IF aid \in LockedAlbums
    THEN (CHOOSE e \in album_locks : e[1] = aid)[2]
    ELSE NoLock
LockPut(aid, l) == {e \in album_locks : e[1] # aid} \cup {<<aid, l>>}

At(t, pcs) == t \in DOMAIN body /\ body[t].pc \in pcs

Goto(t, pc) == body' = [body EXCEPT ![t].pc = pc]

\* lines 96-98 and the start of the worker thread
StartTask(t) ==
    /\ At(t, {"queued"})
    /\ tasks' = [tasks EXCEPT ![t].status = "running"]
    /\ body' = [body EXCEPT ![t].idx = 1,
                            ![t].pc = IF Len(Albums(t)) = 0 THEN "collect"
                                      ELSE "loop"]
    /\ UNCHANGED <<dedup, cacheFiles, album_locks, held>>
    /\ UNCHANGED kvars

\* downloader.py lines 370-374
LoopProgress(idx, n) == 500 + (4000 * idx) \div Max2(1, n)

LoopHead(t) ==
    /\ At(t, {"loop"})
    /\ tasks' = progress_cb(t, LoopProgress(body[t].idx, Len(Albums(t))))
    /\ Goto(t, "getlock")
    /\ UNCHANGED <<dedup, cacheFiles, album_locks, held>>
    /\ UNCHANGED kvars

\* _get_album_lock lines 157-161: the two reads of the lock map.  The lock
\* that guards the second read is a new object of this call, so entering
\* it never waits and excludes no other thread
GetAlbumLock(t) ==
    /\ At(t, {"getlock"})
    /\ body' = [body EXCEPT ![t].lock = LockGet(Aid(t)),
                            ![t].pc = IF LockGet(Aid(t)) = NoLock THEN "store"
                                      ELSE "acquire"]
    /\ UNCHANGED <<tasks, dedup, cacheFiles, album_locks, held>>
    /\ UNCHANGED kvars

\* _get_album_lock lines 162-163: a new lock object, named by its creator
StoreLock(t) ==
    /\ At(t, {"store"})
    /\ album_locks' = LockPut(Aid(t), <<t, body[t].idx>>)
    /\ body' = [body EXCEPT ![t].lock = <<t, body[t].idx>>,
                            ![t].pc = "acquire"]
    /\ UNCHANGED <<tasks, dedup, cacheFiles, held>>
    /\ UNCHANGED kvars

\* line 377: with lock
Acquire(t) ==
    /\ At(t, {"acquire"})
    /\ body[t].lock \notin held
    /\ held' = held \cup {body[t].lock}
    /\ Goto(t, "fetch")
    /\ UNCHANGED <<tasks, dedup, cacheFiles, album_locks>>
    /\ UNCHANGED kvars

\* jd.download_album reports the album: on_album_meta, lines 341-344
FetchMeta(t) ==
    /\ At(t, {"fetch"})
    /\ tasks' = progress_cb(t, 1000)
    /\ Goto(t, "images")
    /\ UNCHANGED <<dedup, cacheFiles, album_locks, held>>
    /\ UNCHANGED kvars

\* jd.download_album reports an image before or after it is saved:
\* on_image_event, lines 349-363; only stage "after" records the image
FetchImage(t) ==
    /\ At(t, {"fetch", "images"})
    /\ tasks' = progress_cb(t, 2000)
    /\ \E stage \in {"before", "after"} :
          body' = [body EXCEPT ![t].pc = "images",
                               ![t].images = IF stage = "after" THEN "some"
                                             ELSE @]
    /\ UNCHANGED <<dedup, cacheFiles, album_locks, held>>
    /\ UNCHANGED kvars

\* leaving `with lock' and going on with the next album
NextAlbum(t) ==
    [body EXCEPT ![t].lock = NoLock,
                 ![t].idx = IF @ < Len(Albums(t)) THEN @ + 1 ELSE @,
                 ![t].pc = IF body[t].idx < Len(Albums(t)) THEN "loop"
                           ELSE "collect"]

\* FetchReturn with the lock left acquired
FetchReturn_leak(t) ==
    /\ At(t, {"fetch", "images"})
    /\ body' = NextAlbum(t)
    /\ UNCHANGED <<tasks, dedup, cacheFiles, album_locks, held>>
    /\ UNCHANGED kvars

\* line 379 returns
FetchReturn(t) ==
    /\ At(t, {"fetch", "images"})
    /\ held' = held \ {body[t].lock}
    /\ body' = NextAlbum(t)
    /\ UNCHANGED <<tasks, dedup, cacheFiles, album_locks>>
    /\ UNCHANGED kvars

\* line 379 raises: lines 380-384 call the library function, lock still held
FetchRaise(t) ==
    /\ At(t, {"fetch", "images"})
    /\ Goto(t, "fallback")
    /\ UNCHANGED <<tasks, dedup, cacheFiles, album_locks, held>>
    /\ UNCHANGED kvars

\* FallbackReturn with the lock left acquired
FallbackReturn_leak(t) ==
    /\ At(t, {"fallback"})
    /\ body' = NextAlbum(t)
    /\ UNCHANGED <<tasks, dedup, cacheFiles, album_locks, held>>
    /\ UNCHANGED kvars

\* line 384 returns
FallbackReturn(t) ==
    /\ At(t, {"fallback"})
    /\ held' = held \ {body[t].lock}
    /\ body' = NextAlbum(t)
    /\ UNCHANGED <<tasks, dedup, cacheFiles, album_locks>>
    /\ UNCHANGED kvars

\* FallbackRaise with the lock left acquired
FallbackRaise_leak(t) ==
    /\ At(t, {"fallback"})
    /\ body' = [body EXCEPT ![t].lock = NoLock, ![t].pc = "raised_fetch"]
    /\ UNCHANGED <<tasks, dedup, cacheFiles, album_locks, held>>
    /\ UNCHANGED kvars

\* line 384 raises: the with statement releases, the exception leaves
\* download_and_package
FallbackRaise(t) ==
    /\ At(t, {"fallback"})
    /\ held' = held \ {body[t].lock}
    /\ body' = [body EXCEPT ![t].lock = NoLock, ![t].pc = "raised_fetch"]
    /\ UNCHANGED <<tasks, dedup, cacheFiles, album_locks>>
    /\ UNCHANGED kvars

\* lines 387-398: with no recorded image, _collect_images scans the shared
\* download directory and finds images there or finds nothing
Collect(t) ==
    /\ At(t, {"collect"})
    /\ tasks' = progress_cb(t, 5000)
    /\ \E found \in {"none", "some"} :
          /\ body[t].images = "some" => found = "some"
          /\ body' = [body EXCEPT ![t].images = found,
                                  ![t].pc = IF Req(t).quality # NoneInt
                                            THEN "reencode" ELSE "package"]
    /\ UNCHANGED <<dedup, cacheFiles, album_locks, held>>
    /\ UNCHANGED kvars

\* lines 403-408
Reencode(t) ==
    /\ At(t, {"reencode"})
    /\ tasks' = progress_cb(t, 5500)
    /\ Goto(t, "package")
    /\ UNCHANGED <<dedup, cacheFiles, album_locks, held>>
    /\ UNCHANGED kvars

\* lines 413-416 and 462-464
PackageStart(t) ==
    /\ At(t, {"package"})
    /\ tasks' = progress_cb(t, 7500)
    /\ Goto(t, "packaging")
    /\ UNCHANGED <<dedup, cacheFiles, album_locks, held>>
    /\ UNCHANGED kvars

\* _make_zip / _make_pdf return; lines 470-479
PackageDone(t) ==
    /\ At(t, {"packaging"})
    /\ tasks' = progress_cb(t, 9500)
    /\ Goto(t, "returned")
    /\ UNCHANGED <<dedup, cacheFiles, album_locks, held>>
    /\ UNCHANGED kvars

\* _make_zip / _make_pdf raise
PackageRaise(t) ==
    /\ At(t, {"packaging"})
    /\ Goto(t, "raised_pack")
    /\ UNCHANGED <<tasks, dedup, cacheFiles, album_locks, held>>
    /\ UNCHANGED kvars

DoneBody == [IdleBody EXCEPT !.pc = "done"]

\* Suffix with the suffix of line 459 on both branches
Suffix_zip(t) == "zip"

\* DownloadResult.suffix: downloader.py lines 459 and 467
Suffix(t) == IF Req(t).output_format = "zip" THEN "zip" ELSE "pdf"

\* Storage.put_artifact: the file "<key>.<suffix>"
put_artifact(key, suffix) == <<key, suffix>>

\* tasks.py lines 124-136
FinishOk(t) ==
    /\ At(t, {"returned"})
    /\ LET cached_path == put_artifact(tasks[t].cache_key[1], Suffix(t))
       IN  /\ cacheFiles' = cacheFiles \cup {cached_path}
           /\ tasks' = [tasks EXCEPT ![t].status = "completed",
                                     ![t].progress = 10000,
                                     ![t].artifact_path = cached_path]
    /\ body' = [body EXCEPT ![t] = DoneBody]
    /\ UNCHANGED <<dedup, album_locks, held>>
    /\ UNCHANGED kvars

\* lines 137-146, the record of a task whose body raised e
Failed(t, e) == [tasks EXCEPT ![t].status = "failed", ![t].error = e]

\* put_artifact raises: reading the source fails (no file appears) or
\* writing the destination fails (the file exists, incomplete)
FinishStoreError(t) ==
    /\ At(t, {"returned"})
    /\ \E written \in BOOLEAN :
          cacheFiles' =
              IF written
              THEN cacheFiles \cup {put_artifact(tasks[t].cache_key[1], Suffix(t))}
              ELSE cacheFiles
    /\ tasks' = Failed(t, "store error")
    /\ body' = [body EXCEPT ![t] = DoneBody]
    /\ UNCHANGED <<dedup, album_locks, held>>
    /\ UNCHANGED kvars

\* the exception of download_and_package reaches the except clause
FinishRaised(t) ==
    /\ At(t, {"raised_fetch", "raised_pack"})
    /\ tasks' = Failed(t, IF body[t].pc = "raised_fetch" THEN "fetch error"
                          ELSE "packaging error")
    /\ body' = [body EXCEPT ![t] = DoneBody]
    /\ UNCHANGED <<dedup, cacheFiles, album_locks, held>>
    /\ UNCHANGED kvars

(***************************************************************************)
(* TaskManager.get_status                                                  *)
(***************************************************************************)
\* the outcome of get_status(id): lines 149-151 give None for an unknown id,
\* line 158 builds TaskStatus(**st), whose field `request' is required
\* (models.py line 62)
get_status(id) ==
    IF id \notin TaskIds THEN "not_found"
    ELSE IF tasks[id].request = NoRequest THEN "raises"
    ELSE "record"

(***************************************************************************)
(* GET /tasks/{task_id}/download/{filename} (main.py lines 50-63)          *)
(***************************************************************************)
\* Path(artifact).name: the last component "<key>.<suffix>" of the path
PathName(path) == [stem |-> path[1], suffix |-> path[2]]

\* path.exists(): the file is in the cache directory
PathExists(path) == path \in cacheFiles

\* the outcome of the route: get_status raises (line 52), 404 (lines 53-57)
\* or the file response (lines 58-63)
download_artifact(task_id, filename) ==
    IF get_status(task_id) = "raises" THEN "raises"
    ELSE IF get_status(task_id) = "not_found" THEN "not_found"
    ELSE IF tasks[task_id].artifact_path = NoPath THEN "not_found"
    ELSE IF ~PathExists(tasks[task_id].artifact_path) THEN "not_found"
    ELSE IF PathName(tasks[task_id].artifact_path) # filename THEN "not_found"
    ELSE "served"

(***************************************************************************)
(* Specification of the server.                                            *)
(***************************************************************************)
\* the record and the file an earlier process left after it completed raw
LoadedRecord(raw) ==
    LET req == TaskRequest(raw)
        key == cache_key(cache_payload(req))
        suffix == IF req.output_format = "zip" THEN "zip" ELSE "pdf"
    IN  [NewState EXCEPT !.status = "completed", !.progress = 10000,
                         !.artifact_path = <<key, suffix>>,
                         !.request = <<req>>, !.cache_key = <<key>>]

RECURSIVE SetToSeq(_)
SetToSeq(S) ==
    IF S = {} THEN <<>>
    ELSE LET x == CHOOSE y \in S : TRUE IN <<x>> \o SetToSeq(S \ {x})

SIdle ==
    /\ tasks = <<>>
    /\ dedup = {}
    /\ cacheFiles = {}
    /\ body = <<>>
    /\ album_locks = {}
    /\ held = {}

SInit ==
    /\ \E earlier \in {S \in SUBSET ReqSet : Cardinality(S) <= MaxEarlier} :
          /\ tasks = SeqMap(LoadedRecord, SetToSeq(earlier))
          /\ cacheFiles = {LoadedRecord(raw).artifact_path : raw \in earlier}
          /\ body = [i \in 1..Cardinality(earlier) |-> IdleBody]
    /\ dedup = {}
    /\ album_locks = {}
    /\ held = {}

KIdle ==
    /\ kA = NoRequest
    /\ kB = NoRequest
    /\ kOut = NoRequest
    /\ RIdle

Init == SInit /\ KIdle

Worker(t) ==
    \/ LoopHead(t)
    \/ GetAlbumLock(t)
    \/ StoreLock(t)
    \/ Acquire(t)
    \/ FetchMeta(t)
    \/ FetchImage(t)
    \/ FetchReturn(t)
    \/ FetchRaise(t)
    \/ FallbackReturn(t)
    \/ FallbackRaise(t)
    \/ Collect(t)
    \/ Reencode(t)
    \/ PackageStart(t)
    \/ PackageDone(t)
    \/ PackageRaise(t)

Coroutine(t) ==
    \/ StartTask(t)
    \/ FinishOk(t)
    \/ FinishStoreError(t)
    \/ FinishRaised(t)

Next ==
    \/ Submit
    \/ \E t \in TaskIds : Coroutine(t)
    \/ \E t \in TaskIds : Worker(t)

Spec == Init /\ [][Next]_vars

TypeOK ==
    /\ Len(body) = Len(tasks)
    /\ \A t \in TaskIds :
          /\ tasks[t].status \in {"queued", "running", "completed", "failed"}
          /\ tasks[t].progress \in 0..10000

\* the server started on an empty data directory
FreshInit == SIdle /\ KIdle

FreshSpec == FreshInit /\ [][Next]_vars

\* every step of a task body except the reports of the fetch collaborator:
\* a call that has started returns or raises
Advance(t) ==
    \/ StartTask(t)
    \/ LoopHead(t)
    \/ GetAlbumLock(t)
    \/ StoreLock(t)
    \/ Acquire(t)
    \/ FetchReturn(t)
    \/ FetchRaise(t)
    \/ FallbackReturn(t)
    \/ FallbackRaise(t)
    \/ Collect(t)
    \/ Reencode(t)
    \/ PackageStart(t)
    \/ PackageDone(t)
    \/ PackageRaise(t)
    \/ FinishOk(t)
    \/ FinishStoreError(t)
    \/ FinishRaised(t)

\* the task ids a process started on an empty data directory can hand out:
\* one per key
TaskIdBound == Cardinality(ReqSet)

\* the event loop runs every ready coroutine and the thread pool runs every
\* submitted call
LiveSpec ==
    FreshInit /\ [][Next]_vars /\ \A t \in 1..TaskIdBound : WF_vars(Advance(t))

(***************************************************************************)
(* POST /tasks with the request bodies as they arrive: the framework builds *)
(* TaskRequest from the body and answers 422 without calling the handler   *)
(* when that fails (main.py lines 29-31, models.py lines 15-38).           *)
(***************************************************************************)
\* the fields of a body that TaskRequest refuses: album_ids is required
\* (line 16), quality has ge=1, le=100 (line 19), compression has ge=0, le=9
\* (line 24), output_format is one of the OutputFormat values (lines 10-12).
\* _coerce_ids (lines 32-37) copies a list as it is, the empty list too
ValidationErrors(raw) ==
    LET req == TaskRequest(raw)
    IN  {f \in {"album_ids"} : "album_ids" \in raw.omitted}
        \cup {f \in {"quality"} :
                 req.quality # NoneInt /\ req.quality \notin 1..100}
        \cup {f \in {"compression"} :
                 req.compression # NoneInt /\ req.compression \notin 0..9}
        \cup {f \in {"output_format"} : req.output_format \notin {"zip", "pdf"}}

\* a document of album 1, an archive of no album, and bodies with a field
\* out of range or without album_ids
PostedBodies ==
    {RawRequest(<<StrId(<<"1">>)>>, "pdf", 80),
     RawRequest(<<>>, "zip", NoneInt),
     RawRequest(<<IntId(2)>>, "zip", 0),
     RawRequest(<<IntId(2)>>, "pdf", 101),
     RawRequest(<<IntId(2)>>, "rar", NoneInt),
     [RawRequest(<<IntId(2)>>, "zip", NoneInt) EXCEPT !.compression = 10],
     [RawRequest(<<>>, "zip", NoneInt) EXCEPT !.omitted = {"album_ids"}]}

\* the route: 422 and no call of the handler, or TaskManager.submit
submit_task(raw) ==
    IF ValidationErrors(raw) # {}
    THEN UNCHANGED vars
    ELSE submit(TaskRequest(raw))

PostTask == \E raw \in PostedBodies : submit_task(raw)

ApiNext ==
    \/ PostTask
    \/ \E t \in TaskIds : Coroutine(t)
    \/ \E t \in TaskIds : Worker(t)

ApiSpec == FreshInit /\ [][ApiNext]_vars

(***************************************************************************)
(* The server with a request whose id list names one album twice.          *)
(* _coerce_ids (models.py lines 32-37) and line 336 of downloader.py copy  *)
(* the list as it is.                                                      *)
(***************************************************************************)
\* an archive of album 1 named as an int and as a str, and a document of
\* album 1
RepeatedIds ==
    {RawRequest(<<IntId(1), StrId(<<"1">>)>>, "zip", NoneInt),
     RawRequest(<<StrId(<<"1">>)>>, "pdf", 80)}

SubmitRepeated == \E raw \in RepeatedIds : submit(TaskRequest(raw))

RepeatNext ==
    \/ SubmitRepeated
    \/ \E t \in TaskIds : Coroutine(t)
    \/ \E t \in TaskIds : Worker(t)

RepeatSpec == FreshInit /\ [][RepeatNext]_vars

(***************************************************************************)
(* The server with two requests that name albums 1 and 2 in opposite       *)
(* orders, one of them naming album 2 twice, under the scheduling of       *)
(* LiveSpec.                                                               *)
(***************************************************************************)
OverlappingIds ==
    {RawRequest(<<IntId(1), IntId(2)>>, "zip", NoneInt),
     RawRequest(<<IntId(2), IntId(1), StrId(<<"2">>)>>, "pdf", 80)}

SubmitOverlapping == \E raw \in OverlappingIds : submit(TaskRequest(raw))

OverlapNext ==
    \/ SubmitOverlapping
    \/ \E t \in TaskIds : Coroutine(t)
    \/ \E t \in TaskIds : Worker(t)

OverlapSpec ==
    /\ FreshInit
    /\ [][OverlapNext]_vars
    /\ \A t \in 1..Cardinality(OverlappingIds) : WF_vars(Advance(t))

(***************************************************************************)
(* The server started after a process that stopped with a task in flight:  *)
(* the state file holds the record as that process last wrote it           *)
(* (Storage._load_state), no artifact was published, and the new           *)
(* TaskManager has no task body and an empty dedup table.                  *)
(***************************************************************************)
\* the record of raw as submit and _run_task of the earlier process left it
InterruptedRecord(raw, status) ==
    LET req == TaskRequest(raw)
    IN  [NewState EXCEPT !.status = status,
                         !.progress = IF status = "running" THEN 2000 ELSE 0,
                         !.request = <<req>>,
                         !.cache_key = <<cache_key(cache_payload(req))>>]

\* InitialDedup with the table filled from the loaded records
InitialDedup_rebuilt(loaded) ==
    {<<loaded[i].cache_key[1], i>> : i \in DOMAIN loaded}

\* tasks.py line 24: self._dedup = {}, whatever the state file held
InitialDedup(loaded) == {}

RestartInit ==
    /\ \E raw \in ReqSet : \E status \in {"queued", "running"} :
          /\ tasks = <<InterruptedRecord(raw, status)>>
          /\ dedup = InitialDedup(<<InterruptedRecord(raw, status)>>)
    /\ cacheFiles = {}
    /\ body = <<IdleBody>>
    /\ album_locks = {}
    /\ held = {}
    /\ KIdle

RestartSpec == RestartInit /\ [][Next]_vars

(***************************************************************************)
(* Storage and its callers statement by statement, for one task: the event *)
(* loop thread runs _run_task (tasks.py lines 96-98 and 124-146) and       *)
(* get_status, the worker thread runs progress_cb (lines 104-109).  The    *)
(* record of a task is one dict object: get_task_state returns it          *)
(* (storage.py line 49) and the callers write its entries, so a write is   *)
(* a write to tasks[1].  _save_state runs after the lock is released       *)
(* (line 54) and its write of the state file succeeds or fails.            *)
(***************************************************************************)
Threads == {"loop", "worker"}

Call(op, pc, n) == [op |-> op, pc |-> pc, n |-> n]

\* the state file after a complete write of the task map (storage.py lines
\* 42-43), and a file the write left cut short, which _load_state cannot
\* parse (lines 35-38)
WrittenFile(map) == [complete |-> TRUE, tasks |-> map]
PartialFile == [complete |-> FALSE, tasks |-> <<>>]

\* the argument of the n-th progress callback
ProgressArg(n) == 2500 * n

\* the state after submit (lines 83-93) has created task 1 and saved it
RegInit ==
    /\ \E raw \in ReqSet :
          /\ tasks = <<[NewState EXCEPT
                           !.request = <<TaskRequest(raw)>>,
                           !.cache_key = <<KeyFor(TaskRequest(raw))>>]>>
          /\ dedup = {<<KeyFor(TaskRequest(raw)), 1>>}
    /\ cacheFiles = {}
    /\ body = <<[IdleBody EXCEPT !.pc = "queued"]>>
    /\ album_locks = {}
    /\ held = {}
    /\ kA = NoRequest /\ kB = NoRequest /\ kOut = NoRequest
    /\ store_lock = "free"
    /\ state_file \in {WrittenFile(tasks), PartialFile}
    /\ calls = [th \in Threads |->
                   IF th = "loop" THEN Call("start", "get_enter", 0)
                   ELSE Call("none", "idle", 0)]

InCall(th, pc) == calls # NoCalls /\ calls[th].pc = pc

RegUnchanged == UNCHANGED <<dedup, body, album_locks, held, kA, kB, kOut>>

\* storage.py line 48: with self._lock
GetEnter(th) ==
    /\ InCall(th, "get_enter")
    /\ store_lock = "free"
    /\ store_lock' = th
    /\ calls' = [calls EXCEPT ![th].pc = "get_exit"]
    /\ UNCHANGED <<tasks, cacheFiles, state_file>>
    /\ RegUnchanged

\* line 49: return the record and leave the lock; get_status finds no
\* artifact path to derive a download_url from and returns (tasks.py 153-158)
GetExit(th) ==
    /\ InCall(th, "get_exit")
    /\ store_lock' = "free"
    /\ calls' = [calls EXCEPT ![th] =
                    IF @.op = "get_status" THEN Call("serve", "idle", 0)
                    ELSE [@ EXCEPT !.pc = "mutate"]]
    /\ UNCHANGED <<tasks, cacheFiles, state_file>>
    /\ RegUnchanged

\* the entries the caller writes into the record it holds: tasks.py line 97,
\* lines 106-108, lines 127-135, lines 138-144
Updated(call) ==
    IF call.op = "start" THEN [tasks EXCEPT ![1].status = "running"]
    ELSE IF call.op = "progress" THEN progress_cb(1, ProgressArg(call.n))
    ELSE IF call.op = "finish_ok"
         THEN [tasks EXCEPT ![1].status = "completed",
                            ![1].progress = 10000,
                            ![1].artifact_path =
                                put_artifact(tasks[1].cache_key[1], Suffix(1))]
    ELSE Failed(1, "packaging error")

Mutate(th) ==
    /\ InCall(th, "mutate")
    /\ tasks' = Updated(calls[th])
    /\ calls' = [calls EXCEPT ![th].pc = "set_enter"]
    /\ UNCHANGED <<cacheFiles, store_lock, state_file>>
    /\ RegUnchanged

\* storage.py line 52: with self._lock
SetEnter(th) ==
    /\ InCall(th, "set_enter")
    /\ store_lock = "free"
    /\ store_lock' = th
    /\ calls' = [calls EXCEPT ![th].pc = "set_exit"]
    /\ UNCHANGED <<tasks, cacheFiles, state_file>>
    /\ RegUnchanged

\* line 53: self._tasks[task_id] = state, the object it already holds
SetExit(th) ==
    /\ InCall(th, "set_exit")
    /\ store_lock' = "free"
    /\ calls' = [calls EXCEPT ![th].pc = "save"]
    /\ UNCHANGED <<tasks, cacheFiles, state_file>>
    /\ RegUnchanged

\* where the callers go on after set_task_state has returned: _run_task
\* starts the worker (line 122), progress_cb returns to the worker, which
\* calls it again or ends, and _run_task ends
AfterSave(th) ==
    IF calls[th].op = "start"
    THEN [calls EXCEPT !["loop"] = Call("serve", "idle", 0),
                       !["worker"] = Call("progress", "get_enter", 1)]
    ELSE IF calls[th].op = "progress"
    THEN [calls EXCEPT ![th] =
             IF @.n < MaxProgress THEN Call("progress", "get_enter", @.n + 1)
             ELSE Call("finished", "idle", @.n)]
    ELSE [calls EXCEPT ![th] = Call("ended", "idle", 0)]

\* _save_state with the exception of the write passed on to the caller
SaveState_raise(th) ==
    /\ InCall(th, "save")
    /\ \/ /\ state_file' = WrittenFile(tasks)
          /\ calls' = AfterSave(th)
       \/ /\ state_file' \in {state_file, PartialFile}
          /\ calls' = [calls EXCEPT ![th] = Call("raised", "idle", 0)]
    /\ UNCHANGED <<tasks, cacheFiles, store_lock>>
    /\ RegUnchanged

\* storage.py lines 40-45 and 54: the file gets the task map as it is now,
\* or write_text raises, leaving the file as it was or cut short, and
\* `except Exception: pass' returns to the caller all the same
SaveState(th) ==
    /\ InCall(th, "save")
    /\ \/ state_file' = WrittenFile(tasks)
       \/ state_file' \in {state_file, PartialFile}
    /\ calls' = AfterSave(th)
    /\ UNCHANGED <<tasks, cacheFiles, store_lock>>
    /\ RegUnchanged

\* GET /tasks/1 arrives while the event loop is free
GetStatusCall ==
    /\ calls # NoCalls
    /\ calls["loop"].op = "serve"
    /\ calls' = [calls EXCEPT !["loop"] = Call("get_status", "get_enter", 0)]
    /\ UNCHANGED <<tasks, cacheFiles, store_lock, state_file>>
    /\ RegUnchanged

\* tasks.py line 122 returns or raises after the worker has ended; on
\* return line 126 publishes the artifact
FinishCall ==
    /\ calls # NoCalls
    /\ calls["loop"].op = "serve"
    /\ calls["worker"].op = "finished"
    /\ \E outcome \in {"finish_ok", "finish_failed"} :
          /\ calls' = [calls EXCEPT !["loop"] = Call(outcome, "mutate", 0)]
          /\ cacheFiles' =
                 IF outcome = "finish_ok"
                 THEN cacheFiles \cup {put_artifact(tasks[1].cache_key[1], Suffix(1))}
                 ELSE cacheFiles
    /\ UNCHANGED <<tasks, store_lock, state_file>>
    /\ RegUnchanged

StorageCall(th) ==
    \/ GetEnter(th)
    \/ GetExit(th)
    \/ Mutate(th)
    \/ SetEnter(th)
    \/ SetExit(th)
    \/ SaveState(th)

RegNext ==
    \/ \E th \in Threads : StorageCall(th)
    \/ GetStatusCall
    \/ FinishCall

RegSpec == RegInit /\ [][RegNext]_vars

(***************************************************************************)
(* Storage with two callers at once and no failing write: the worker       *)
(* thread of task 1 runs progress_cb while the event loop thread starts    *)
(* task 2 (tasks.py lines 96-98).  _save_state (storage.py lines 40-45)    *)
(* runs after the lock is released, in two steps: json.dumps serialises    *)
(* the task map, write_text replaces the content of the state file with    *)
(* the serialised text.                                                    *)
(***************************************************************************)
SaveCall(op, pc, n, data) == [op |-> op, pc |-> pc, n |-> n, data |-> data]

NoData == <<>>

\* task 1 runs in its worker, submit has created and saved task 2 and the
\* event loop is about to run _run_task for it
SyncInit ==
    /\ tasks = [t \in 1..2 |->
                   LET raw == IF t = 1
                              THEN RawRequest(<<IntId(2), IntId(1)>>, "zip", NoneInt)
                              ELSE RawRequest(<<StrId(<<"1">>)>>, "pdf", 80)
                   IN  [NewState EXCEPT
                           !.status = IF t = 1 THEN "running" ELSE "queued",
                           !.request = <<TaskRequest(raw)>>,
                           !.cache_key = <<KeyFor(TaskRequest(raw))>>]]
    /\ dedup = {<<tasks[t].cache_key[1], t>> : t \in 1..2}
    /\ cacheFiles = {}
    /\ body = [t \in 1..2 |-> [IdleBody EXCEPT !.pc = "queued"]]
    /\ album_locks = {}
    /\ held = {}
    /\ kA = NoRequest /\ kB = NoRequest /\ kOut = NoRequest
    /\ store_lock = "free"
    /\ state_file = WrittenFile(tasks)
    /\ calls = [th \in Threads |->
                   IF th = "loop" THEN SaveCall("start", "get_enter", 0, NoData)
                   ELSE SaveCall("progress", "get_enter", 1, NoData)]

\* tasks.py line 97 for task 2, lines 106-108 for task 1
MutateOwn(th) ==
    /\ InCall(th, "mutate")
    /\ tasks' = IF calls[th].op = "start"
                THEN [tasks EXCEPT ![2].status = "running"]
                ELSE progress_cb(1, ProgressArg(calls[th].n))
    /\ calls' = [calls EXCEPT ![th].pc = "set_enter"]
    /\ UNCHANGED <<cacheFiles, store_lock, state_file>>
    /\ RegUnchanged

\* storage.py lines 42-43, the argument of write_text: json.dumps(data)
DumpState(th) ==
    /\ InCall(th, "save")
    /\ calls' = [calls EXCEPT ![th].pc = "write",
                              ![th].data = WrittenFile(tasks)]
    /\ UNCHANGED <<tasks, cacheFiles, store_lock, state_file>>
    /\ RegUnchanged

\* line 43: write_text puts the text into the file; set_task_state returns:
\* the event loop goes on to start the worker of task 2 (line 122), the
\* worker of task 1 goes on to its next callback or ends
WriteState(th) ==
    /\ InCall(th, "write")
    /\ state_file' = calls[th].data
    /\ calls' = [calls EXCEPT ![th] =
                    IF @.op = "progress" /\ @.n < MaxProgress
                    THEN SaveCall("progress", "get_enter", @.n + 1, NoData)
                    ELSE SaveCall(@.op, "idle", @.n, NoData)]
    /\ UNCHANGED <<tasks, cacheFiles, store_lock>>
    /\ RegUnchanged

SyncCall(th) ==
    \/ GetEnter(th)
    \/ GetExit(th)
    \/ MutateOwn(th)
    \/ SetEnter(th)
    \/ SetExit(th)
    \/ DumpState(th)
    \/ WriteState(th)

SyncNext == \E th \in Threads : SyncCall(th)

SyncSpec == SyncInit /\ [][SyncNext]_vars

(***************************************************************************)
(* Properties of the server.                                               *)
(***************************************************************************)
KeyOfRequest(req) == cache_key(cache_payload(req))

\* the task was created by a submit of this process for key, and its body
\* has not ended
InFlight(t, key) ==
    /\ tasks[t].cache_key = <<key>>
    /\ body[t].pc \notin {"none", "done"}
    /\ tasks[t].status \in {"queued", "running"}

\* the records a step creates
Created == DOMAIN tasks' \ DOMAIN tasks

\* the keys under which a step registers task n in the dedup table
KeysOf(n) == {e[1] : e \in {d \in dedup' : d[2] = n}}

\* a submit appends a record or leaves every task body as it is; every step
\* of a task body changes that body
SubmitStep == Created # {} \/ body' = body

\* the cache key of each request of Requests
RequestKey == [req \in Requests |-> KeyOfRequest(req)]

C1_Response ==
    \A req \in Requests : \A t \in TaskIds :
        InFlight(t, RequestKey[req]) =>
            LET response == submit_response(req)
            IN  response.task_id = t /\ response.duplicate

\* no step creates a record or schedules a body for a key that has a task
\* in flight
C1_Effect ==
    \A n \in Created : \A key \in KeysOf(n) :
        ~ \E t \in TaskIds : InFlight(t, key)

\* C1: a submit whose key belongs to a task of an earlier submit that is
\* still queued or running answers with that task's id and duplicate=true,
\* creates no record and schedules no task body.
C1_DedupInFlight == [](C1_Response) /\ [][C1_Effect]_vars

C1_Witness ==
    \E req \in Requests : \E t \in TaskIds :
        /\ InFlight(t, KeyOfRequest(req))
        /\ body[t].pc = "fetch"
        /\ tasks[t].status = "running"
        /\ submit_response(req) =
               [task_id |-> t, status |-> "running", duplicate |-> TRUE]

\* a completed task of this key whose artifact is in the store
Published(key) ==
    \E t \in TaskIds :
        /\ tasks[t].status = "completed"
        /\ tasks[t].cache_key = <<key>>
        /\ tasks[t].artifact_path \in cacheFiles

C2_Response ==
    \A req \in Requests :
        (req.cache /\ Published(RequestKey[req])) =>
            LET response == submit_response(req)
            IN  response.status = "completed" /\ response.duplicate

\* no step schedules a task body for a request with cache-use enabled whose
\* key has a published artifact; a submit never touches a lock
C2_Effect ==
    /\ \A n \in Created :
          body'[n].pc # "none" =>
              ~ (tasks'[n].request[1].cache
                    /\ Published(KeyOfRequest(tasks'[n].request[1])))
    /\ Created # {} => (album_locks' = album_locks /\ held' = held)

\* C2: once a task has completed and published its artifact, a submit of
\* the same request with cache-use enabled answers completed and
\* duplicate=true, and starts no task body, no lock acquisition, no fetch.
C2_CacheShortCircuit == [](C2_Response) /\ [][C2_Effect]_vars

C2_Witness ==
    \E req \in Requests : \E t \in TaskIds :
        /\ req.cache
        /\ body[t].pc = "done"
        /\ tasks[t].status = "completed"
        /\ tasks[t].cache_key = <<KeyOfRequest(req)>>
        /\ tasks[t].artifact_path \in cacheFiles
        /\ submit_response(req) =
               [task_id |-> t, status |-> "completed", duplicate |-> TRUE]

\* the worker of t is inside the fetch of its current album (line 379 or 384)
Fetching(t) == At(t, {"fetch", "images", "fallback"})

\* C3: no two fetch invocations for the same album id are active at the
\* same time, whichever tasks they belong to.
C3_LockExclusivity ==
    \A t1 \in TaskIds : \A t2 \in TaskIds :
        (t1 # t2 /\ Fetching(t1) /\ Fetching(t2)) => Aid(t1) # Aid(t2)

\* C4: the state of a record only changes queued -> running,
\* running -> completed or running -> failed; a completed or failed record
\* keeps its state.
C4_Lifecycle ==
    [][\A t \in TaskIds :
          tasks'[t].status # tasks[t].status =>
              <<tasks[t].status, tasks'[t].status>> \in
                  {<<"queued", "running">>, <<"running", "completed">>,
                   <<"running", "failed">>}]_vars

\* C5: while a task is running, the progress stored in its record never
\* decreases.
C5_ProgressMonotone ==
    [][\A t \in TaskIds :
          (tasks[t].status = "running" /\ tasks'[t].status = "running") =>
              tasks'[t].progress >= tasks[t].progress]_vars

\* C6: progress is 1.0 exactly for the completed records, lies in
\* [0, 0.99] for all others, and a completed record has its artifact path.
C6_ProgressAndState ==
    \A t \in TaskIds :
        /\ (tasks[t].progress = 10000) <=> (tasks[t].status = "completed")
        /\ tasks[t].status # "completed" => tasks[t].progress \in 0..9900
        /\ tasks[t].status = "completed" => tasks[t].artifact_path # NoPath

C7_Caught ==
    \A t \in TaskIds :
        (body[t].pc \in {"raised_fetch", "raised_pack", "returned"}
            /\ body'[t].pc # body[t].pc) =>
            /\ body'[t].pc = "done"
            /\ \/ body[t].pc = "returned" /\ tasks'[t].status = "completed"
               \/ /\ tasks'[t].status = "failed"
                  /\ tasks'[t].error \notin {NoneStr, ""}

\* C7: an exception of the fetch, the packaging or the publish step ends the
\* task body with the record failed and a non-empty error string, and
\* get_status gives a record for every task id that submit has returned.
C7_ErrorsBecomeState ==
    [][C7_Caught]_vars /\ [](\A t \in TaskIds : get_status(t) = "record")

\* C8: every task that submit creates as queued becomes running, and then
\* reaches completed or failed with its body ended.
C8_Liveness ==
    \A t \in 1..TaskIdBound :
        /\ At(t, {"queued"}) ~> (t \in TaskIds /\ tasks[t].status = "running")
        /\ At(t, {"queued"}) ~>
               (At(t, {"done"}) /\ tasks[t].status \in {"completed", "failed"})

C8_Witness ==
    \E t1 \in TaskIds : \E t2 \in TaskIds :
        /\ At(t1, {"done"}) /\ tasks[t1].status = "completed"
        /\ At(t2, {"done"}) /\ tasks[t2].status = "failed"
        /\ tasks[t2].error = "fetch error"

\* the extension that stands for the output kind of a request
Extension(req) == IF req.output_format = "zip" THEN "zip" ELSE "pdf"

\* the keys under which the dedup table holds task t
RegisteredKeys(t) == {e[1] : e \in {d \in dedup : d[2] = t}}

\* the store file "<key>.<extension>" of some request with this key
StoreFileOf(key) ==
    {<<key, Extension(req)>> : req \in {r \in Requests : KeyOfRequest(r) = key}}

\* the artifact path of a completed record is the store file of its request;
\* a record that a cache hit synthesised holds no request and is judged by
\* the key the submit registered it under
ArtifactNamedByKey(t) ==
    IF tasks[t].request # NoRequest
    THEN tasks[t].artifact_path =
             <<KeyOfRequest(tasks[t].request[1]), Extension(tasks[t].request[1])>>
    ELSE \E key \in RegisteredKeys(t) : tasks[t].artifact_path \in StoreFileOf(key)

OneFilePerKey ==
    \A f \in cacheFiles : \A g \in cacheFiles : f[1] = g[1] => f = g

\* C11: the artifact path of every completed task is the store file
\* <key>.<extension> of its request's cache key, with extension zip for an
\* archive and pdf for a document, and the store holds at most one file per
\* cache key.
C11_ArtifactLayout ==
    /\ \A t \in TaskIds :
          tasks[t].status = "completed" => ArtifactNamedByKey(t)
    /\ OneFilePerKey

C11_Witness ==
    \E t \in TaskIds : \E u \in TaskIds :
        /\ At(t, {"done"}) /\ tasks[t].status = "completed"
        /\ Req(t).output_format = "pdf"
        /\ tasks[t].artifact_path = <<tasks[t].cache_key[1], "pdf">>
        /\ tasks[u].request = NoRequest /\ tasks[u].status = "completed"
        /\ tasks[u].artifact_path \in cacheFiles
        /\ C11_ArtifactLayout

\* the record of a task that an earlier process completed, loaded at
\* start-up together with its artifact in the store
PublishedBeforeRestart(t, key) ==
    /\ body[t].pc = "none"
    /\ tasks[t].request # NoRequest
    /\ tasks[t].cache_key = <<key>>
    /\ tasks[t].status = "completed"
    /\ tasks[t].artifact_path \in cacheFiles

\* what a cache hit can change: it appends a record, adds a dedup entry, or
\* writes status, progress and artifact path of the record it answers with
HitChanges ==
    \/ Created # {}
    \/ Cardinality(dedup') # Cardinality(dedup)
    \/ \E u \in TaskIds :
          \/ tasks'[u].status # tasks[u].status
          \/ tasks'[u].progress # tasks[u].progress
          \/ tasks'[u].artifact_path # tasks[u].artifact_path

C12_Response ==
    \A req \in Requests : \A t \in TaskIds :
        (req.cache /\ PublishedBeforeRestart(t, RequestKey[req])) =>
            LET response == submit_response(req)
            IN  response.status = "completed" /\ response.duplicate

\* the submit leaves the answered task completed with the path of the stored
\* file, schedules no task body and touches no lock
C12_Effect ==
    (SubmitStep /\ HitChanges) =>
        \A req \in Requests : \A t \in TaskIds :
            (req.cache /\ PublishedBeforeRestart(t, RequestKey[req])
                /\ submit(req)) =>
                /\ tasks'[SubmitTaskId(req)].status = "completed"
                /\ tasks'[SubmitTaskId(req)].artifact_path = tasks[t].artifact_path
                /\ \A n \in Created : body'[n].pc = "none"
                /\ \A u \in TaskIds : body'[u] = body[u]
                /\ album_locks' = album_locks /\ held' = held

\* C12: after a restart, a submit with cache-use enabled of a request whose
\* artifact was published before the restart answers completed and
\* duplicate=true, the answered task holds the path of the stored file, and
\* the submit starts no fetch.
C12_CacheSurvivesRestart == [](C12_Response) /\ [][C12_Effect]_vars

\* the state after the first such submit: a synthesised completed task next
\* to the loaded one, and no task body
C12_Witness ==
    \E t \in TaskIds : \E u \in TaskIds :
        /\ PublishedBeforeRestart(t, tasks[t].cache_key[1])
        /\ u # t
        /\ tasks[u].request = NoRequest
        /\ tasks[u].status = "completed"
        /\ tasks[u].artifact_path = tasks[t].artifact_path
        /\ dedup = {<<tasks[t].cache_key[1], u>>}
        /\ \A v \in TaskIds : body[v].pc = "none"

\* C13: get_status gives the record for every task id that a submit has
\* returned and not-found for every other id, and never raises.
C13_GetStatusTotal ==
    /\ \A id \in TaskIds : get_status(id) = "record"
    /\ \A id \in (1..(FreshId + 1)) \ TaskIds : get_status(id) = "not_found"

\* a request the service contract calls malformed: one that TaskRequest
\* refuses, or one whose id list is empty
Malformed(raw) == ValidationErrors(raw) # {} \/ Len(raw.album_ids) = 0

\* C14: a malformed request, the one with an empty id list included, is
\* rejected before any task exists: the POST creates no record, leaves the
\* dedup table as it is and schedules no task body.
C14_MalformedRejected ==
    [][\A raw \in PostedBodies :
          (Malformed(raw) /\ submit_task(raw)) =>
              (tasks' = tasks /\ dedup' = dedup /\ body' = body)]_vars

\* the file names a caller asks for: the name of every store file, under
\* its own and under the other extension
AskedNames ==
    {[stem |-> f[1], suffix |-> x] : f \in cacheFiles, x \in {"zip", "pdf"}}

\* the task exists, has an artifact, and filename is the name of that file
NameMatches(id, filename) ==
    /\ id \in TaskIds
    /\ tasks[id].artifact_path # NoPath
    /\ filename = PathName(tasks[id].artifact_path)

\* C15: the download route serves a file only for an existing task with an
\* artifact and the exact file name of that artifact; for an unknown task,
\* a task without artifact or any other file name the answer is not-found.
C15_DownloadExactName ==
    \A id \in 1..FreshId : \A filename \in AskedNames :
        /\ download_artifact(id, filename) = "served" => NameMatches(id, filename)
        /\ ~NameMatches(id, filename) =>
               download_artifact(id, filename) = "not_found"

\* the image set of t's packaging is empty: no image was recorded and the
\* directory scan found nothing
EmptyImageSet(t) ==
    /\ body[t].pc \in {"reencode", "package", "packaging", "returned",
                        "raised_pack"}
    /\ body[t].images = "none"

\* C17: with an empty image set packaging fails, for an archive and for a
\* document: the packaging call does not return, the task ends failed and
\* no artifact is published.
C17_EmptySetFails ==
    [][\A t \in TaskIds :
          EmptyImageSet(t) =>
              /\ body'[t].pc # "returned"
              /\ body'[t].pc = "done" =>
                     (tasks'[t].status = "failed" /\ cacheFiles' = cacheFiles)]_vars

\* C19: within one task body the fetch of an album id is attempted once; when
\* it raises, the body makes no second attempt for that id.
C19_SingleFetchAttempt ==
    [][\A t \in TaskIds :
          (At(t, {"fetch", "images"}) /\ body'[t].pc \notin {"fetch", "images"})
              => body'[t].pc \in {"loop", "collect", "raised_fetch"}]_vars

\* the submit of req finds no artifact it may use and no dedup entry
NothingFound(req) ==
    /\ ~(req.cache /\ cached_artifact(RequestKey[req]) # {})
    /\ RequestKey[req] \notin DedupKeys

C20_Response ==
    \A req \in Requests :
        NothingFound(req) =>
            submit_response(req) =
                [task_id |-> FreshId, status |-> "queued", duplicate |-> FALSE]

\* the submit appends one queued record with progress 0, registers its id
\* under the key, appends one task body that has not started, and leaves the
\* other records and bodies as they are
C20_Effect ==
    SubmitStep =>
        \A req \in Requests :
            (NothingFound(req) /\ submit(req)) =>
                /\ Created = {FreshId}
                /\ tasks'[FreshId].status = "queued"
                /\ tasks'[FreshId].progress = 0
                /\ tasks'[FreshId].request = <<req>>
                /\ dedup' = dedup \cup {<<RequestKey[req], FreshId>>}
                /\ Len(body') = Len(body) + 1
                /\ body'[FreshId].pc = "queued"
                /\ \A t \in TaskIds : tasks'[t] = tasks[t] /\ body'[t] = body[t]

\* C20: a submit that finds no usable artifact and no dedup entry creates
\* exactly one queued record with progress 0, registers its id under the
\* key, schedules exactly one task body, and answers with that id, state
\* queued and duplicate=false before any step of the body has run.
C20_NewTask == [](C20_Response) /\ [][C20_Effect]_vars

\* a new task just created for a key whose artifact is in the store, by a
\* request with cache-use disabled
C20_Witness ==
    \E t \in TaskIds :
        /\ t = Len(tasks)
        /\ body[t].pc = "queued"
        /\ tasks[t].status = "queued" /\ tasks[t].progress = 0
        /\ ~Req(t).cache
        /\ cached_artifact(tasks[t].cache_key[1]) # {}
        /\ <<tasks[t].cache_key[1], t>> \in dedup

\* the dedup table holds an entry for the key of req
Registered(req) == RequestKey[req] \in DedupKeys

C21_Response ==
    \A req \in Requests :
        Registered(req) =>
            LET response == submit_response(req)
            IN  /\ response.task_id = DedupGet(RequestKey[req])
                /\ response.duplicate

\* no step removes or rewrites a dedup entry, schedules a task body for a
\* registered key, or restarts a body that has ended or never existed
C21_Effect ==
    /\ dedup \subseteq dedup'
    /\ \A n \in Created :
          body'[n].pc # "none" => tasks'[n].cache_key[1] \notin DedupKeys
    /\ \A t \in TaskIds :
          body[t].pc \in {"none", "done"} => body'[t].pc = body[t].pc

Scheduled(t) == body[t].pc # "none"

\* C22: for every cache key at most one task body is scheduled in the life
\* of the process, so no two bodies of one key are active at the same time.
C22_OneBodyPerKey ==
    \A t1 \in TaskIds : \A t2 \in TaskIds :
        (Scheduled(t1) /\ Scheduled(t2)
            /\ tasks[t1].cache_key = tasks[t2].cache_key) => t1 = t2

\* two bodies of different keys about to publish, and the key of the first
\* resubmitted with cache-use disabled answered as a duplicate
C22_Witness ==
    \E t1 \in TaskIds : \E t2 \in TaskIds :
        /\ t1 # t2
        /\ At(t1, {"returned"}) /\ At(t2, {"returned"})
        /\ \E req \in Requests :
              /\ ~req.cache
              /\ tasks[t1].cache_key = <<KeyOfRequest(req)>>
              /\ submit_response(req).task_id = t1
              /\ submit_response(req).duplicate

\* every acquired lock is the one some worker took for the fetch it is in
HeldByFetch ==
    \A l \in held : \E t \in TaskIds : Fetching(t) /\ body[t].lock = l

\* a body that has left the fetch loop has no lock
EndedHoldsNone ==
    \A t \in TaskIds : ~(Fetching(t) \/ At(t, {"acquire", "store", "getlock"}))
                            => body[t].lock = NoLock

\* C23: the lock taken for a fetch is released when the fetch returns and
\* when it raises: a body that has ended holds no lock, and every worker
\* that waits for a lock acquires it.
C23_LockReleased ==
    /\ [](HeldByFetch /\ EndedHoldsNone)
    /\ \A t \in 1..TaskIdBound : At(t, {"acquire"}) ~> At(t, {"fetch"})

\* a worker fetches album "1" under the lock that an ended body created and
\* released
C23_Witness ==
    \E t \in TaskIds : \E u \in TaskIds :
        /\ At(t, {"done"})
        /\ At(u, {"fetch"}) /\ Aid(u) = <<"1">>
        /\ body[u].lock \in held
        /\ body[u].lock[1] = t

\* line 390, `for aid in album_ids': the album ids whose recorded images
\* are appended to `selected', one list per element
SelectedFrom(t) == Albums(t)

\* the worker of t enters the fetch of line 379
EntersFetch(t) == At(t, {"acquire"}) /\ body'[t].pc = "fetch"

\* the body of t has built `selected' from recorded images
HasSelected(t) ==
    /\ body[t].pc \in {"reencode", "package", "packaging", "returned"}
    /\ body[t].images = "some"

\* C24: a task body fetches each distinct album id of its request once and
\* takes each album's images into the artifact once, also when the id list
\* repeats an id.
C24_DistinctIdsOnce ==
    /\ [][\A t \in TaskIds :
             EntersFetch(t) =>
                 \A j \in 1..(body[t].idx - 1) : Albums(t)[j] # Aid(t)]_vars
    /\ [](\A t \in TaskIds :
             HasSelected(t) =>
                 \A i \in 1..Len(SelectedFrom(t)) :
                     \A j \in 1..Len(SelectedFrom(t)) :
                         SelectedFrom(t)[i] = SelectedFrom(t)[j] => i = j)

\* C25: every change of a field of a task record is made by a thread that
\* holds the lock of the registry while it makes the change.
C25_MutationUnderLock ==
    [][tasks' # tasks =>
          \E th \in Threads : store_lock = th /\ calls'[th] # calls[th]]_vars

\* put_artifact raised in the body of t (line 126)
PublishFailed(t) == tasks[t].error = "store error"

\* the step in which the publish of t's artifact returns or raises ends the
\* body, with the record completed or failed
C26_Step ==
    \A t \in TaskIds :
        (At(t, {"returned"}) /\ body'[t].pc # "returned") =>
            /\ body'[t].pc = "done"
            /\ PublishFailed(t)' => tasks'[t].status = "failed"

\* C26: when put_artifact raises after a successful fetch and packaging, the
\* task ends failed with an error string and is never completed, and the
\* publish is not tried again.
C26_PublishFailureFails ==
    /\ [][C26_Step]_vars
    /\ [](\A t \in TaskIds :
             PublishFailed(t) => (tasks[t].status = "failed" /\ At(t, {"done"})))

\* a record the state file held as queued or running at start-up
Interrupted(t) ==
    /\ body[t].pc = "none"
    /\ tasks[t].request # NoRequest
    /\ tasks[t].status \in {"queued", "running"}

\* no submit answers with the id of an interrupted record, and a submit of
\* its request that finds no artifact and no dedup entry is answered with a
\* new id, queued, not a duplicate
C30_Response ==
    \A req \in Requests : \A t \in TaskIds :
        Interrupted(t) =>
            LET response == submit_response(req)
            IN  /\ response.task_id # t
                /\ (tasks[t].cache_key = <<RequestKey[req]>> /\ NothingFound(req))
                       => response = [task_id |-> FreshId, status |-> "queued",
                                      duplicate |-> FALSE]

\* no step changes an interrupted record or gives it a task body
C30_Effect ==
    \A t \in TaskIds :
        Interrupted(t) => (tasks'[t] = tasks[t] /\ body'[t] = body[t])

\* C30: after a restart the dedup table is empty, a record loaded as queued
\* or running keeps that state and never gets a task body, and a submit of
\* the same request without a stored artifact creates a new task with a new
\* id.
C30_DedupPerProcess ==
    /\ dedup = {}
    /\ Interrupted(1)
    /\ [](C30_Response)
    /\ [][C30_Effect]_vars

\* the interrupted record next to the completed task of a resubmission
C30_Witness ==
    \E u \in TaskIds :
        /\ Interrupted(1)
        /\ u # 1
        /\ tasks[u].cache_key = tasks[1].cache_key
        /\ At(u, {"done"}) /\ tasks[u].status = "completed"
        /\ dedup = {<<tasks[1].cache_key[1], u>>}

\* the step in which _save_state of thread th returns
SaveReturns(th) == InCall(th, "save") /\ calls'[th] # calls[th]

\* the record holds what the call in progress or just ended has written
HoldsUpdate ==
    /\ (calls["loop"].op = "start"
           /\ calls["loop"].pc \in {"set_enter", "set_exit", "save"})
          => tasks[1].status = "running"
    /\ (calls["worker"].op = "progress"
           /\ calls["worker"].pc \in {"set_enter", "set_exit", "save"})
          => tasks[1].progress = ProgressArg(calls["worker"].n)
    /\ (calls["worker"].op = "finished" /\ calls["loop"].op \in {"serve", "get_status"})
          => (tasks[1].progress = ProgressArg(MaxProgress)
                /\ tasks[1].status = "running")
    /\ (calls["loop"].op = "finish_ok" /\ calls["loop"].pc # "mutate")
          => (tasks[1].status = "completed" /\ tasks[1].progress = 10000)
    /\ (calls["loop"].op = "finish_failed" /\ calls["loop"].pc # "mutate")
          => tasks[1].status = "failed"

\* every caller has returned: the task has reached its final state
CallsEnded ==
    /\ calls["loop"].op = "ended"
    /\ calls["worker"].op = "finished"
    /\ tasks[1].status \in {"completed", "failed"}
    /\ tasks[1].status = "completed" <=> tasks[1].artifact_path \in cacheFiles

\* C27: whether the write of the state file succeeds or fails,
\* set_task_state returns to its caller, the record in memory holds the
\* update, the caller goes on as after a successful write, and the task
\* reaches the same final state.
C27_SaveFailureSwallowed ==
    /\ [][\A th \in Threads :
             SaveReturns(th) =>
                 (tasks' = tasks /\ calls' = AfterSave(th)
                     /\ store_lock' = store_lock)]_vars
    /\ [](HoldsUpdate)
    /\ [](calls["loop"].op = "ended" => CallsEnded)

\* the task has completed although the write of its last update failed:
\* the state file is cut short
C27_Witness ==
    /\ calls # NoCalls
    /\ CallsEnded
    /\ tasks[1].status = "completed"
    /\ state_file = PartialFile

\* the task body of t is queued or running
Active(t) == body[t].pc \notin {"none", "done"}

\* C31: a submit leaves status, progress and artifact path of every task
\* whose body is still queued or running as they are, whatever the
\* cache-use flags of the submits.
C31_SubmitFrame ==
    [][SubmitStep =>
          \A req \in Requests :
              submit(req) =>
                  \A t \in TaskIds :
                      Active(t) =>
                          /\ tasks'[t].status = tasks[t].status
                          /\ tasks'[t].progress = tasks[t].progress
                          /\ tasks'[t].artifact_path = tasks[t].artifact_path]_vars

\* C32: a record has an error string exactly when its state is failed.
C32_ErrorIffFailed ==
    \A t \in TaskIds :
        (tasks[t].error # NoneStr) <=> (tasks[t].status = "failed")

\* the workers that are inside a fetch
Fetchers == {t \in TaskIds : Fetching(t)}

\* every worker inside a fetch holds the one lock it took for that fetch,
\* and no lock is held otherwise
OneLockEach ==
    /\ \A t \in Fetchers : body[t].lock \in held
    /\ Cardinality(held) = Cardinality(Fetchers)

\* C33: a task body holds at most one album lock at any time, and tasks
\* whose requests name the same albums in different orders, or one album
\* twice, never deadlock: every worker that waits for a lock gets it.
C33_NoDeadlock ==
    /\ [](OneLockEach)
    /\ \A t \in 1..Cardinality(OverlappingIds) :
          (At(t, {"acquire"}) /\ body[t].lock \in held) ~> At(t, {"fetch"})

\* one worker fetches album 2 for the second time while the other waits
\* for the lock of album 2 after it has fetched album 1
C33_Witness ==
    \E t \in TaskIds : \E u \in TaskIds :
        /\ Fetching(t) /\ body[t].idx = 3 /\ Aid(t) = <<"2">>
        /\ At(u, {"acquire"}) /\ body[u].idx = 2 /\ Aid(u) = <<"2">>
        /\ body[u].lock = body[t].lock

\* every call of set_task_state has returned and no caller is on its way
\* to one
Quiet == calls # NoCalls /\ \A th \in DOMAIN calls : calls[th].pc = "idle"

\* C35: with no failing write, once every set_task_state call of the event
\* loop and of the worker threads has returned, the state file holds the
\* task map as it is in memory.
C35_FileMatchesMemory == Quiet => state_file = WrittenFile(tasks)

(***************************************************************************)
(* Specification of the cache key alone: two raw requests are drawn and    *)
(* submit's key computation (tasks.py lines 46-57) is applied to both.     *)
(***************************************************************************)
KIds == {IntId(2), StrId(<<"2">>), IntId(10), StrId(<<"1", "0">>)}

KIdLists == UNION {[1..n -> KIds] : n \in 1..MaxIds}

KPasswords == {NoneStr, "", "pw1", "pw2"}

\* every optional field at its default, and every optional field elsewhere
KProfiles ==
    {AllGiven,
     [AllGiven EXCEPT !.output_format = "pdf", !.quality = 80,
                      !.encrypt = TRUE, !.compression = 9,
                      !.proxy = "system", !.option_file = "opt.yml"]}

\* the request leaves out nothing, one field, or every optional field
KOmissions == {{}} \cup {{f} : f \in OptionalFields} \cup {OptionalFields}

\* pairs that vary the id list and the omitted fields
KIdPairs ==
    {<<prof @@ [album_ids |-> a], [prof EXCEPT !.omitted = o] @@ [album_ids |-> b]>> :
        prof \in KProfiles, a \in KIdLists, b \in KIdLists, o \in KOmissions}

\* pairs that vary the password and the cache-use flag
KFieldPairs ==
    {<<[prof EXCEPT !.password = p, !.cache = c] @@ [album_ids |-> <<IntId(2)>>],
       [prof EXCEPT !.password = q, !.cache = d, !.omitted = o]
           @@ [album_ids |-> <<IntId(2)>>]>> :
        prof \in KProfiles, p \in KPasswords, q \in KPasswords,
        c \in BOOLEAN, d \in BOOLEAN, o \in {{}, {"cache"}, {"password"}}}

KeyInit ==
    /\ SIdle
    /\ RIdle
    /\ \E pair \in KIdPairs \cup KFieldPairs : kA = pair[1] /\ kB = pair[2]
    /\ kOut = NoRequest

\* the payload that is hashed and the key, for both requests
ComputeKeys ==
    /\ kOut = NoRequest
    /\ kOut' = [blobA |-> cache_blob(cache_payload(TaskRequest(kA))),
                blobB |-> cache_blob(cache_payload(TaskRequest(kB))),
                keyA |-> KeyOf(kA),
                keyB |-> KeyOf(kB)]
    /\ UNCHANGED <<kA, kB>>
    /\ UNCHANGED svars
    /\ UNCHANGED rvars

KeyNext == ComputeKeys

KeySpec == KeyInit /\ [][KeyNext]_vars

(***************************************************************************)
(* Properties of the cache key.                                            *)
(***************************************************************************)
\* the number a decimal numeral denotes
RECURSIVE Decimal(_)
Decimal(s) ==
    IF s = <<>> THEN 0
    ELSE 10 * Decimal(SubSeq(s, 1, Len(s) - 1)) + (Ord(s[Len(s)]) - 1)

IdValue(a) == IF a.tag = "int" THEN a.n ELSE Decimal(a.s)

Occurrences(ids, v) == Cardinality({i \in 1..Len(ids) : IdValue(ids[i]) = v})

\* the same ids, in any order, each as an int or as its decimal numeral
SameIds(ra, rb) ==
    \A v \in {IdValue(a) : a \in KIds} :
        Occurrences(ra.album_ids, v) = Occurrences(rb.album_ids, v)

\* the value a field has for the server: the one given, or the default
Given(raw, f) == IF f \in raw.omitted THEN FieldDefault[f] ELSE raw[f]

SameFields(ra, rb, fields) == \A f \in fields : Given(ra, f) = Given(rb, f)

KeysComputed == kOut # NoRequest

\* C9: two requests that differ only in the order of their ids, in the
\* int-or-string form of an id, or in an optional field being left out
\* instead of given its default value, have the same cache key.
C9_KeyIgnoresOrderFormAndDefaults ==
    (KeysComputed /\ SameIds(kA, kB) /\ SameFields(kA, kB, OptionalFields))
        => kOut.keyA = kOut.keyB

C9_Witness ==
    /\ KeysComputed
    /\ SameIds(kA, kB) /\ SameFields(kA, kB, OptionalFields)
    /\ Len(kA.album_ids) = 2
    /\ kA.album_ids[1] = IntId(10) /\ kA.album_ids[2] = StrId(<<"2">>)
    /\ kB.album_ids[1] = IntId(2) /\ kB.album_ids[2] = StrId(<<"1", "0">>)
    /\ kA.omitted = {} /\ kB.omitted = OptionalFields
    /\ kOut.keyA = kOut.keyB

PasswordOf(raw) == Given(raw, "password")

OnlyPasswordDiffers(ra, rb) ==
    /\ ra.album_ids = rb.album_ids
    /\ SameFields(ra, rb, OptionalFields \ {"password"})
    /\ PasswordOf(ra) # PasswordOf(rb)

KeyIgnoresCacheFlag ==
    (KeysComputed /\ kA.album_ids = kB.album_ids
        /\ SameFields(kA, kB, OptionalFields \ {"cache"}))
        => kOut.keyA = kOut.keyB

\* what is hashed holds the digest of the password and no password entry
HashedBlobHidesPassword(blob, raw) ==
    /\ "password" \notin DOMAIN blob
    /\ blob.password_hash = Sha256Hex(OrEmpty(PasswordOf(raw)))

KeyHidesPassword ==
    KeysComputed => /\ HashedBlobHidesPassword(kOut.blobA, kA)
                    /\ HashedBlobHidesPassword(kOut.blobB, kB)

\* C10 as claimed: the key does not depend on the cache-use flag, what is
\* hashed never holds the plaintext password, and two requests that differ
\* only in their passwords have different keys.
C10_Original ==
    /\ KeyIgnoresCacheFlag
    /\ KeyHidesPassword
    /\ (KeysComputed /\ OnlyPasswordDiffers(kA, kB)) => kOut.keyA # kOut.keyB

\* C10 as amended: the key does not depend on the cache-use flag, what is
\* hashed never holds the plaintext password, and two requests that differ
\* only in their passwords have different keys unless one has no password
\* and the other the empty password (both are hashed as the empty string).
C10_KeyCacheFlagAndPassword ==
    /\ KeyIgnoresCacheFlag
    /\ KeyHidesPassword
    /\ (KeysComputed /\ OnlyPasswordDiffers(kA, kB)
            /\ OrEmpty(PasswordOf(kA)) # OrEmpty(PasswordOf(kB)))
        => kOut.keyA # kOut.keyB

C10_Witness ==
    /\ KeysComputed
    /\ OnlyPasswordDiffers(kA, kB)
    /\ PasswordOf(kA) = "pw1" /\ PasswordOf(kB) = "pw2"
    /\ "password" \notin DOMAIN kOut.blobA
    /\ kOut.keyA # kOut.keyB

(***************************************************************************)
(* Specification of packaging alone: a request is drawn and carried from   *)
(* _run_task (tasks.py lines 111-136) through the packaging step of        *)
(* download_and_package (downloader.py lines 410-468) to its final record. *)
(***************************************************************************)
\* DownloadParams as _run_task builds them: tasks.py lines 112-121
DownloadParams(req) ==
    [album_ids |-> SeqMap(Str, req.album_ids),
     output_format |-> req.output_format,
     quality |-> req.quality,
     encrypt |-> req.encrypt,
     password |-> req.password,
     compression |-> IF req.compression \in {NoneInt, 0} THEN 6
                     ELSE req.compression]

\* the password handed to _make_zip and _make_pdf: lines 422, 454, 466
PackagePassword(params) ==
    IF params.encrypt THEN params.password ELSE NoneStr

\* `if password:' (line 281) and `if not password:' (line 299): the
\* artifact is encrypted only with a password that is neither None nor ""
Encrypted(password) == password \notin {NoneStr, ""}

PEncrypt == BOOLEAN
PFormats == {"zip", "pdf"}
PQualities == {NoneInt, 80}
PCompressions == {0, 6, 9}

PackInputs ==
    {[RawRequest(<<IntId(2)>>, fmt, q)
         EXCEPT !.encrypt = e, !.password = p, !.compression = c] :
        fmt \in PFormats, q \in PQualities, e \in PEncrypt,
        p \in KPasswords, c \in PCompressions}

PackInit ==
    /\ SIdle
    /\ RIdle
    /\ kA \in PackInputs
    /\ kB = NoRequest
    /\ kOut = NoRequest

\* what the packaging step is given, what it produces, and the record the
\* task ends with
Package ==
    /\ kOut = NoRequest
    /\ LET params == DownloadParams(TaskRequest(kA))
       IN  kOut' = [password |-> PackagePassword(params),
                    encrypted |-> Encrypted(PackagePassword(params)),
                    compression |-> params.compression,
                    state |-> LoadedRecord(kA)]
    /\ UNCHANGED <<kA, kB>>
    /\ UNCHANGED svars
    /\ UNCHANGED rvars

PackNext == Package

PackSpec == PackInit /\ [][PackNext]_vars

(***************************************************************************)
(* Properties of packaging.                                                *)
(***************************************************************************)
Packaged == kOut # NoRequest

\* the passwords a reader of the final record finds: the one of the request
\* snapshot (tasks.py line 87); no other entry of the record holds one
StatePasswords(state) == {state.request[1].password}

\* C16: a task submitted with encrypt set and no password gets a generated
\* password at packaging, its artifact is encrypted with that password, and
\* the password can be read from the state of the completed task.
C16_GeneratedPassword ==
    (Packaged /\ kA.encrypt /\ kA.password = NoneStr) =>
        /\ kOut.password \notin {NoneStr, ""}
        /\ kOut.encrypted
        /\ kOut.password \in StatePasswords(kOut.state)

(***************************************************************************)
(* Specification of the image order alone: the saved-image events of one   *)
(* album arrive in some order and lines 390-394 of download_and_package    *)
(* order them.                                                             *)
(***************************************************************************)
\* Path(img_save_path).name: downloader.py line 138
FileName(path) == path[Len(path)]

\* the entry on_image_event records for a saved image (lines 355-361); the
\* path is <<chapter directory, file name>>, the file name a numeral
ImageEntry(dir, name, page) ==
    [path |-> <<dir, name>>, page |-> page, filename |-> FileName(<<dir, name>>)]

\* the sort key of line 393:
\* (page is None, page or 0, str(filename or path))
PageIsNone(it) == it.page = NoneInt
PageOrZero(it) == IF it.page = NoneInt THEN 0 ELSE it.page
\* after_image always passes a file name (lines 137-138), so `filename or
\* path' is the file name
NameKey(it) == it.filename

\* the order of Python tuples on these keys; False sorts before True
KeyLess(a, b) ==
    IF PageIsNone(a) # PageIsNone(b) THEN PageIsNone(b)
    ELSE IF PageOrZero(a) # PageOrZero(b) THEN PageOrZero(a) < PageOrZero(b)
    ELSE StrLess(NameKey(a), NameKey(b))

\* list.sort is stable: an entry stays before the later entries of equal key
RECURSIVE InsertStable(_, _)
InsertStable(x, s) ==
    IF s = <<>> THEN <<x>>
    ELSE IF ~KeyLess(Head(s), x) THEN <<x>> \o s
    ELSE <<Head(s)>> \o InsertStable(x, Tail(s))

RECURSIVE sort_items(_)
sort_items(s) ==
    IF s = <<>> THEN <<>> ELSE InsertStable(Head(s), sort_items(Tail(s)))

\* two chapters whose files carry the same names and page numbers, and
\* entries without a page number
ImagePool ==
    {ImageEntry("ch1", <<"2">>, 1), ImageEntry("ch1", <<"1", "0">>, 2),
     ImageEntry("ch2", <<"2">>, 1), ImageEntry("ch1", <<"3">>, NoneInt),
     ImageEntry("ch2", <<"1">>, NoneInt)}

\* the arrival orders of up to MaxImages different images
Arrivals ==
    UNION {{s \in [1..n -> ImagePool] :
               \A i \in 1..n : \A j \in 1..n : s[i] = s[j] => i = j} :
           n \in 1..MaxImages}

OrderInit ==
    /\ SIdle
    /\ RIdle
    /\ kA \in Arrivals
    /\ kB = NoRequest
    /\ kOut = NoRequest

\* lines 391-394: sort the album's entries, take their paths
OrderImages ==
    /\ kOut = NoRequest
    /\ kOut' = [items |-> sort_items(kA),
                selected |-> [i \in 1..Len(kA) |-> sort_items(kA)[i].path]]
    /\ UNCHANGED <<kA, kB>>
    /\ UNCHANGED svars
    /\ UNCHANGED rvars

OrderNext == OrderImages

OrderSpec == OrderInit /\ [][OrderNext]_vars

(***************************************************************************)
(* Properties of the image order.                                          *)
(***************************************************************************)
ItemsOrdered == kOut # NoRequest

AllPaged(s) == \A i \in 1..Len(s) : s[i].page # NoneInt

ByPage(s) ==
    \A i \in 1..Len(s) : \A j \in 1..Len(s) : i < j => s[i].page <= s[j].page

ByFileName(s) ==
    \A i \in 1..Len(s) : \A j \in 1..Len(s) :
        i < j => ~StrLess(s[j].filename, s[i].filename)

\* the other arrival orders of the same images
Rearranged(s) ==
    {p \in [1..Len(s) -> {s[i] : i \in 1..Len(s)}] :
        \A i \in 1..Len(s) : \E j \in 1..Len(s) : p[j] = s[i]}

\* C18: the images of an album are ordered by page number when every image
\* carries one and by lexical file name otherwise, and the order is the same
\* for every arrival order of the image events.
C18_ImageOrder ==
    ItemsOrdered =>
        /\ AllPaged(kA) => ByPage(kOut.items)
        /\ ~AllPaged(kA) => ByFileName(kOut.items)
        /\ \A p \in Rearranged(kA) : sort_items(p) = kOut.items

(***************************************************************************)
(* Specification of the image selection alone (downloader.py lines         *)
(* 349-398): the shared download directory holds the files of several      *)
(* albums, the downloader reports the images it saves for the albums of    *)
(* the request, and `selected' is built.  A file is the album it belongs   *)
(* to, its path <<album directory, file name>> and its extension.          *)
(***************************************************************************)
WorkspaceFile(album, name, ext) ==
    [album |-> album, path |-> <<album, name>>, ext |-> ext]

\* albums 1 and 2 can be requested; album 3 was downloaded by another task
WorkspacePool ==
    {WorkspaceFile(<<"1">>, <<"1">>, ".jpg"),
     WorkspaceFile(<<"1">>, <<"2">>, ".webp"),
     WorkspaceFile(<<"2">>, <<"1">>, ".png"),
     WorkspaceFile(<<"3">>, <<"1">>, ".jpg"),
     WorkspaceFile(<<"3">>, <<"2">>, ".json")}

SelectAlbumIds ==
    {<<IntId(1)>>, <<StrId(<<"2">>)>>, <<IntId(1), IntId(2)>>,
     <<StrId(<<"2">>), IntId(1)>>}

NoImages == [aid \in {f.album : f \in WorkspacePool} |-> <<>>]

\* line 336
AlbumIdStrs(ids) == [i \in 1..Len(ids) |-> Str(ids[i])]

SelectInit ==
    /\ SIdle
    /\ RIdle
    /\ kA \in [album_ids : SelectAlbumIds, files : SUBSET WorkspacePool]
    /\ kB = NoImages
    /\ kOut = NoRequest

\* the images recorded so far
Recorded == UNION {{kB[aid][i].path : i \in 1..Len(kB[aid])} : aid \in DOMAIN kB}

\* lines 349-361 with stage "after": the downloader of this call saved, or
\* found, a file of one of its albums and reports it once
OnImageEvent ==
    /\ kOut = NoRequest
    /\ \E f \in kA.files :
          /\ \E i \in 1..Len(kA.album_ids) : Str(kA.album_ids[i]) = f.album
          /\ f.path \notin Recorded
          /\ Cardinality(Recorded) < MaxImages
          /\ kB' = [kB EXCEPT ![f.album] =
                       Append(@, ImageEntry(f.album, f.path[2], NoneInt))]
    /\ UNCHANGED <<kA, kOut>>
    /\ UNCHANGED svars
    /\ UNCHANGED rvars

\* the order of two paths: by directory, then by file name
PathLess(a, b) ==
    IF a[1] # b[1] THEN StrLess(a[1], b[1]) ELSE StrLess(a[2], b[2])

RECURSIVE SortedPaths(_)
SortedPaths(S) ==
    IF S = {} THEN <<>>
    ELSE LET x == CHOOSE y \in S : \A z \in S \ {y} : PathLess(y, z)
         IN  <<x>> \o SortedPaths(S \ {x})

\* lines 245-254
collect_images(files) ==
    SortedPaths({f.path : f \in {g \in files :
                                    g.ext \in {".jpg", ".jpeg", ".png", ".webp"}}})

\* lines 390-394
RECURSIVE SelectFrom(_, _)
SelectFrom(album_ids, images_by_album) ==
    IF album_ids = <<>> THEN <<>>
    ELSE LET items == sort_items(images_by_album[Head(album_ids)])
         IN  [i \in 1..Len(items) |-> items[i].path]
                 \o SelectFrom(Tail(album_ids), images_by_album)

\* lines 389-398
SelectImages ==
    /\ kOut = NoRequest
    /\ LET album_ids == AlbumIdStrs(kA.album_ids)
           from_events == SelectFrom(album_ids, kB)
       IN  kOut' = [album_ids |-> album_ids,
                    selected |-> IF from_events = <<>>
                                 THEN collect_images(kA.files)
                                 ELSE from_events,
                    fallback |-> from_events = <<>>]
    /\ UNCHANGED <<kA, kB>>
    /\ UNCHANGED svars
    /\ UNCHANGED rvars

SelectNext == OnImageEvent \/ SelectImages

SelectSpec == SelectInit /\ [][SelectNext]_vars

(***************************************************************************)
(* Properties of the image selection.                                      *)
(***************************************************************************)
\* the album a path of the download directory belongs to
AlbumOf(path) == path[1]

Named(out) == {out.album_ids[i] : i \in 1..Len(out.album_ids)}

\* C34: the images packaged for a task belong to the albums its request
\* names, whether they come from the reported images or from the scan of
\* the download directory; no image of another album is selected.
C34_OnlyNamedAlbums ==
    kOut # NoRequest =>
        \A i \in 1..Len(kOut.selected) : AlbumOf(kOut.selected[i]) \in Named(kOut)

\* the same on the reported images alone
C34_CallbackPath ==
    (kOut # NoRequest /\ ~kOut.fallback) =>
        \A i \in 1..Len(kOut.selected) : AlbumOf(kOut.selected[i]) \in Named(kOut)

(***************************************************************************)
(* Specification of Storage.put_artifact alone (storage.py lines 85-95):   *)
(* a file system and the arguments of a call are drawn, and the call is    *)
(* made up to MaxCalls times.  A path is <<directory, stem, extension>>,   *)
(* already resolved; a file is its bytes and its modification time; a str  *)
(* that holds a suffix is a sequence of "." and of pieces without a dot.   *)
(***************************************************************************)
\* suffix.lstrip('.')
RECURSIVE LStripDot(_)
LStripDot(suffix) ==
    IF suffix # <<>> /\ Head(suffix) = "." THEN LStripDot(Tail(suffix))
    ELSE suffix

\* line 88: cache_dir / f"{key}.{suffix.lstrip('.')}"
DstPath(key, suffix) == <<"cache", key, LStripDot(suffix)>>

\* put_artifact with the source removed after the copy
PutArtifact_move(fs, key, src_path, suffix, now) ==
    LET dst == DstPath(key, suffix)
    IN  IF src_path = dst THEN [fs |-> fs, result |-> dst]
        ELSE IF src_path \notin DOMAIN fs THEN [fs |-> fs, result |-> "raises"]
        ELSE [fs |-> [q \in (DOMAIN fs \cup {dst}) \ {src_path} |->
                        IF q = dst
                        THEN [bytes |-> fs[src_path].bytes, mtime |-> now]
                        ELSE fs[q]],
              result |-> dst]

\* the file system after the call and what the call returns: line 89-90
\* return dst untouched, line 92 raises when the source cannot be read,
\* lines 92-95 write the bytes of the source and set the time of the write
PutArtifact(fs, key, src_path, suffix, now) ==
    LET dst == DstPath(key, suffix)
    IN  IF src_path = dst THEN [fs |-> fs, result |-> dst]
        ELSE IF src_path \notin DOMAIN fs THEN [fs |-> fs, result |-> "raises"]
        ELSE [fs |-> [q \in DOMAIN fs \cup {dst} |->
                        IF q = dst
                        THEN [bytes |-> fs[src_path].bytes, mtime |-> now]
                        ELSE fs[q]],
              result |-> dst]

WorkFile == <<"work", "JM_1", <<"zip">>>>
MissingFile == <<"work", "JM_2", <<"zip">>>>

PutKeys == {"k1", "k2"}
PutSuffixes == {<<"zip">>, <<".", "zip">>, <<"pdf">>}

\* the packaged file in the work directory, with an empty store or a store
\* that holds k1.zip with other bytes or with the same bytes
PutFileSystems ==
    {[q \in {WorkFile} |-> [bytes |-> "new", mtime |-> 0]]}
    \cup {[q \in {WorkFile, DstPath("k1", <<"zip">>)} |->
              IF q = WorkFile THEN [bytes |-> "new", mtime |-> 0]
              ELSE [bytes |-> b, mtime |-> 0]] : b \in {"old", "new"}}

PutInputs ==
    {[fs |-> fs, key |-> key, src_path |-> src, suffix |-> suffix] :
        fs \in PutFileSystems, key \in PutKeys, suffix \in PutSuffixes,
        src \in {WorkFile, MissingFile, DstPath("k1", <<"zip">>)}}

\* kB counts the calls made and is the clock; kOut is the file system now
\* and the result of the last call
PutInit ==
    /\ SIdle
    /\ RIdle
    /\ kA \in PutInputs
    /\ kB = 0
    /\ kOut = [fs |-> kA.fs, result |-> NoRequest]

CallPutArtifact ==
    /\ kB < MaxCalls
    /\ kB' = kB + 1
    /\ kOut' = PutArtifact(kOut.fs, kA.key, kA.src_path, kA.suffix, kB + 1)
    /\ UNCHANGED kA
    /\ UNCHANGED svars
    /\ UNCHANGED rvars

PutNext == CallPutArtifact

PutSpec == PutInit /\ [][PutNext]_vars

(***************************************************************************)
(* Properties of put_artifact.                                             *)
(***************************************************************************)
PutDst == DstPath(kA.key, kA.suffix)

\* the source is a readable file other than the destination
Copies == kA.src_path # PutDst /\ kA.src_path \in DOMAIN kA.fs

\* paths and bytes, without the modification times
Contents(fs) == [q \in DOMAIN fs |-> fs[q].bytes]

StagedName(idx) == <<"_reencoded", idx>>

\* the bytes im.save writes (line 267)
Jpeg(bytes, quality) == <<"jpeg", quality, bytes>>

\* lines 264-267 raise: Image.open for a file that is no image, im.save for
\* an image it cannot write as JPEG
ReencodeRaises(src) == src.kind \in {"not_image", "unsavable"}

\* ReencodeImage without line 272: a file that fell back is not appended
ReencodeImage_skip(acc, src, quality) ==
    LET dst == StagedName(acc.idx)
    IN  IF ReencodeRaises(src)
        THEN [idx |-> acc.idx + 1,
              out |-> acc.out,
              staging |-> (dst :> src.bytes) @@ acc.staging]
        ELSE [idx |-> acc.idx + 1,
              out |-> Append(acc.out, dst),
              staging |-> (dst :> Jpeg(src.bytes, quality)) @@ acc.staging]

\* one turn of the loop, lines 262-272: the re-encoded file, or a copy of
\* the source under the same staged name
ReencodeImage(acc, src, quality) ==
    LET dst == StagedName(acc.idx)
    IN  IF ReencodeRaises(src)
        THEN [idx |-> acc.idx + 1,
              out |-> Append(acc.out, dst),
              staging |-> (dst :> src.bytes) @@ acc.staging]
        ELSE [idx |-> acc.idx + 1,
              out |-> Append(acc.out, dst),
              staging |-> (dst :> Jpeg(src.bytes, quality)) @@ acc.staging]

RECURSIVE ReencodeLoop(_, _, _)
ReencodeLoop(acc, images, quality) ==
    IF images = <<>> THEN acc
    ELSE ReencodeLoop(ReencodeImage(acc, Head(images), quality),
                      Tail(images), quality)

\* the list returned and the files of the staging directory
reencode_images(images, quality) ==
    ReencodeLoop([idx |-> 1, out |-> <<>>, staging |-> <<>>], images, quality)

SourcePool ==
    {[path |-> <<"ch1", <<"1">>>>, bytes |-> "a", kind |-> "image"],
     [path |-> <<"ch1", <<"2">>>>, bytes |-> "b", kind |-> "not_image"],
     [path |-> <<"ch1", <<"3">>>>, bytes |-> "c", kind |-> "unsavable"],
     [path |-> <<"ch2", <<"1">>>>, bytes |-> "d", kind |-> "image"]}

\* the lists of up to MaxImages files, a file possibly twice
SourceLists == UNION {[1..n -> SourcePool] : n \in 0..MaxImages}

ReencodeInit ==
    /\ SIdle
    /\ RIdle
    /\ kA \in SourceLists
    /\ kB \in {1, 80}
    /\ kOut = NoRequest

Reencoded ==
    /\ kOut = NoRequest
    /\ kOut' = reencode_images(kA, kB)
    /\ UNCHANGED <<kA, kB>>
    /\ UNCHANGED svars
    /\ UNCHANGED rvars

ReencodeNext == Reencoded

ReencodeSpec == ReencodeInit /\ [][ReencodeNext]_vars

MetaFile(kind, complete, page_count) ==
    [kind |-> kind, complete |-> complete, page_count |-> page_count]

\* the `complete' entry is missing, false or true; the `page_count' entry is
\* missing or an int, as on_before_album and on_after_album write it
MetaFiles ==
    {MetaFile(kind, "missing", NoneInt) :
        kind \in {"absent", "unreadable", "corrupt", "list"}}
    \cup {MetaFile("dict", c, pc) :
            c \in {"missing", "false", "true"}, pc \in {NoneInt} \cup 0..MaxImages}

NoMeta == MetaFile("absent", "missing", NoneInt)

Workspaces == [meta : MetaFiles, images : 0..MaxImages]

\* lines 497-513 without the check of the page count
is_album_complete_nocount(ws) ==
    IF ws.meta.kind \in {"unreadable", "corrupt"} THEN <<FALSE, NoMeta>>
    ELSE IF ws.images = 0 THEN <<FALSE, NoMeta>>
    ELSE IF ws.meta.kind # "dict" \/ ws.meta.complete # "true"
         THEN <<FALSE, NoMeta>>
    ELSE <<TRUE, ws.meta>>

\* lines 497-513: the pair (complete, meta) returned
is_album_complete(ws) ==
    IF ws.meta.kind \in {"unreadable", "corrupt"} THEN <<FALSE, NoMeta>>
    ELSE IF ws.images = 0 THEN <<FALSE, NoMeta>>
    ELSE IF ws.meta.kind # "dict" \/ ws.meta.complete # "true"
         THEN <<FALSE, NoMeta>>
    ELSE IF ws.meta.page_count # NoneInt /\ ws.meta.page_count > 0
            /\ ws.images < ws.meta.page_count
         THEN <<FALSE, ws.meta>>
    ELSE <<TRUE, ws.meta>>

CompleteInit ==
    /\ SIdle
    /\ RIdle
    /\ kA \in Workspaces
    /\ kB = NoRequest
    /\ kOut = NoRequest

IsAlbumComplete ==
    /\ kOut = NoRequest
    /\ kOut' = [complete |-> is_album_complete(kA)[1],
                meta |-> is_album_complete(kA)[2]]
    /\ UNCHANGED <<kA, kB>>
    /\ UNCHANGED svars
    /\ UNCHANGED rvars

CompleteNext == IsAlbumComplete

CompleteSpec == CompleteInit /\ [][CompleteNext]_vars

\* C38: _is_album_complete answers complete only if meta.json is there with
\* complete set to true, at least one image is found, and the images are
\* at least page_count when meta.json carries a positive page_count; a
\* meta.json that cannot be read or parsed gives not complete.
C38_CompleteOnlyIf ==
    kOut # NoRequest =>
        /\ kOut.complete =>
              /\ kA.meta.kind = "dict"
              /\ kA.meta.complete = "true"
              /\ kA.images >= 1
              /\ kA.meta.page_count > 0 => kA.images >= kA.meta.page_count
        /\ kA.meta.kind \in {"unreadable", "corrupt"} => ~kOut.complete

\* an album reported complete whose meta.json carries a positive page count
C38_Witness ==
    /\ kOut # NoRequest
    /\ kOut.complete
    /\ kA.meta.page_count > 1

(***************************************************************************)
(* The legacy server (src/main.py): TaskManager with the tasks of one      *)
(* album.  The variables hold                                              *)
(*   tasks   TaskManager.tasks, the TaskStatus of task 1, 2, ...           *)
(*   body    the thread started for each task, with its arguments          *)
(*   kA      the album id of the requests and its album_state entry        *)
(*   kB      the directory artifacts/<album id>: the artifact files, the   *)
(*           artifact_index.json, the <hash>.pwd files; the configured     *)
(*           naming rule and the date                                      *)
(*   kOut    the workspace work/<album id>: meta.json and the images       *)
(* A file name is a base and an extension; a hash is the payload hashed.   *)
(***************************************************************************)
LegacyRequest(fmt, quality, encrypt, password) ==
    [output_format |-> fmt, quality |-> quality, encrypt |-> encrypt,
     password |-> password, compression |-> 6]

LegacyReqs ==
    {LegacyRequest("zip", NoneInt, FALSE, NoneStr),
     LegacyRequest("zip", 80, FALSE, NoneStr),
     LegacyRequest("zip", NoneInt, TRUE, NoneStr),
     LegacyRequest("pdf", 80, TRUE, NoneStr)}

\* the album id as the caller writes it: the number, or the number after JM
LegacyAlbumIds == {<<"1">>, <<"J", "M", "1">>}

\* str(album.id), line 289: the album object that download_album (line 467)
\* hands to the callbacks carries the number of the album
AlbumObjectId(album_id) ==
    IF Len(album_id) > 2 /\ album_id[1] = "J" /\ album_id[2] = "M"
    THEN SubSeq(album_id, 3, Len(album_id))
    ELSE album_id

Rules == {"album_id", "short_hash", "random", "date"}

\* lines 471-481
hash_params(album_id, req) ==
    <<"sha256",
      [album_id |-> album_id,
       output_format |-> req.output_format,
       quality |-> req.quality,
       encrypt |-> req.encrypt,
       compression |-> req.compression,
       password_hash |-> IF req.password \notin {NoneStr, ""}
                         THEN <<"sha256", req.password>> ELSE <<>>]>>

Pwd(kind, n) == [kind |-> kind, n |-> n]
NoPwd == Pwd("none", 0)

\* generate_password (lines 721-728): a value not generated before
generate_password(n) == Pwd("generated", n)

\* `password' of the request as _build_artifact reads it
GivenPwd(req) ==
    IF req.password \notin {NoneStr, ""} THEN Pwd("given", 0) ELSE NoPwd

Base(kind, n, of) == [kind |-> kind, n |-> n, of |-> of]
FileNamed(base, ext) == [base |-> base, ext |-> ext]
NoFile == FileNamed(Base("none", 0, <<>>), "")

\* a dict or a directory with one more entry
Put(f, k, v) == [x \in DOMAIN f \cup {k} |-> IF x = k THEN v ELSE f[x]]

LegacyStatus(hash) ==
    [status |-> "queued", duplicate |-> FALSE, cache_hash |-> hash,
     artifact_filename |-> NoFile, error |-> NoneStr, password |-> NoPwd]

NoThread == [pc |-> "none", req |-> <<>>]
Thread(pc, req) == [pc |-> pc, req |-> <<req>>]

LegacyInit ==
    /\ tasks = <<>>
    /\ body = <<>>
    /\ dedup = {}
    /\ cacheFiles = {}
    /\ album_locks = {}
    /\ held = {}
    /\ RIdle
    /\ \E id \in LegacyAlbumIds : kA = [album_id |-> id, status |-> "none"]
    /\ \E rule \in Rules :
          kB = [rule |-> rule, files |-> <<>>, index |-> <<>>, pwd |-> <<>>,
                built |-> 0, today |-> 1]
    /\ kOut \in {[meta |-> NoMeta, images |-> 0],
                 [meta |-> MetaFile("dict", "true", 2), images |-> 2]}

\* lines 531-542: the file name rebuilt from the rule, if the rule allows it
FallbackName(dir, album_id, hash, fmt) ==
    IF dir.rule = "album_id" THEN FileNamed(Base("album_id", 0, album_id), fmt)
    ELSE IF dir.rule = "short_hash" THEN FileNamed(Base("short_hash", 0, hash), fmt)
    ELSE NoFile

\* lines 515-542: the file name found for the hash, or NoFile
get_artifact(dir, album_id, hash, fmt) ==
    IF hash \in DOMAIN dir.index
    THEN IF dir.index[hash] \in DOMAIN dir.files THEN dir.index[hash] ELSE NoFile
    ELSE IF FallbackName(dir, album_id, hash, fmt) \in DOMAIN dir.files
         THEN FallbackName(dir, album_id, hash, fmt)
    ELSE NoFile

\* lines 577-579
BuildPassword(dir, req) ==
    IF req.encrypt /\ GivenPwd(req) = NoPwd
    THEN generate_password(dir.built + 1) ELSE GivenPwd(req)

\* lines 582-599 on the day `day'
BuildBase(dir, album_id, hash, day) ==
    IF dir.rule = "album_id" THEN Base("album_id", 0, album_id)
    ELSE IF dir.rule = "short_hash" THEN Base("short_hash", 0, hash)
    ELSE IF dir.rule = "random" THEN Base("random", dir.built + 1, <<>>)
    ELSE Base("date", day, <<>>)

\* lines 601-608: the file written, with the parameters it is built from and
\* the password it is encrypted under
BuiltName(dir, album_id, req, hash, day) ==
    FileNamed(BuildBase(dir, album_id, hash, day), req.output_format)

\* lines 574-622: the directory after the build
build_artifact(dir, album_id, req, hash, day) ==
    LET password == BuildPassword(dir, req)
        filename == BuiltName(dir, album_id, req, hash, day)
    IN  [dir EXCEPT
            !.files = Put(@, filename,
                          [hash |-> hash,
                           password |-> IF req.encrypt THEN password ELSE NoPwd]),
            !.index = Put(@, hash, filename),
            !.pwd = IF req.encrypt /\ password # NoPwd
                    THEN Put(@, hash, password) ELSE @,
            !.built = @ + 1,
            !.today = day]

\* lines 552-556
get_cached_password(dir, hash) ==
    IF hash \in DOMAIN dir.pwd THEN dir.pwd[hash] ELSE NoPwd

LegacyUnchanged ==
    /\ UNCHANGED <<dedup, cacheFiles, album_locks, held>>
    /\ UNCHANGED rvars

\* lines 182-256
SubmitLegacy(req) ==
    /\ Len(tasks) < MaxLegacyTasks
    /\ LET hash == hash_params(kA.album_id, req)
           status == LegacyStatus(hash)
           existing == get_artifact(kB, kA.album_id, hash, req.output_format)
       IN  IF existing # NoFile
           THEN /\ tasks' = Append(tasks, [status EXCEPT
                                !.status = "done",
                                !.artifact_filename = existing,
                                !.duplicate = TRUE])
                /\ body' = Append(body, NoThread)
                /\ UNCHANGED kA
           ELSE IF is_album_complete(kOut)[1]
           THEN /\ tasks' = Append(tasks, [status EXCEPT
                                !.status = "packaging", !.duplicate = TRUE])
                /\ body' = Append(body, Thread("package", req))
                /\ kA' = [kA EXCEPT !.status = "done"]
           ELSE IF kA.status = "downloading"
           THEN /\ tasks' = Append(tasks, [status EXCEPT
                                !.status = "processing", !.duplicate = TRUE])
                /\ body' = Append(body, Thread("await", req))
                /\ UNCHANGED kA
           ELSE IF kA.status = "done"
           THEN /\ tasks' = Append(tasks, [status EXCEPT !.status = "packaging"])
                /\ body' = Append(body, Thread("package", req))
                /\ UNCHANGED kA
           ELSE /\ tasks' = Append(tasks, [status EXCEPT !.status = "downloading"])
                /\ body' = Append(body, Thread("check", req))
                /\ kA' = [kA EXCEPT !.status = "downloading"]
    /\ UNCHANGED <<kB, kOut>>
    /\ LegacyUnchanged

\* lines 345-360: the album is complete on disk, or _download_album starts
DownloadCheck(t) ==
    /\ At(t, {"check"})
    /\ IF is_album_complete(kOut)[1]
       THEN /\ kA' = [kA EXCEPT !.status = "done"]
            /\ tasks' = [tasks EXCEPT ![t].status = "processing"]
            /\ Goto(t, "package")
       ELSE /\ Goto(t, "downloading")
            /\ UNCHANGED <<kA, tasks>>
    /\ UNCHANGED <<kB, kOut>>
    /\ LegacyUnchanged

\* download_album has saved the images of the album and calls after_album
DownloadSaved(t) ==
    /\ At(t, {"downloading"})
    /\ kOut' = [kOut EXCEPT !.images = 2]
    /\ Goto(t, "after_album")
    /\ UNCHANGED <<tasks, kA, kB>>
    /\ LegacyUnchanged

\* lines 287-309, called with the album object of the download
on_after_album(t) ==
    /\ At(t, {"after_album"})
    /\ IF AlbumObjectId(kA.album_id) = kA.album_id
       THEN /\ kA' = [kA EXCEPT !.status = "done"]
            /\ kOut' = [kOut EXCEPT !.meta = MetaFile("dict", "true", kOut.images)]
       ELSE UNCHANGED <<kA, kOut>>
    /\ Goto(t, "returning")
    /\ UNCHANGED <<tasks, kB>>
    /\ LegacyUnchanged

\* line 360 returns, lines 361-365
DownloadReturn(t) ==
    /\ At(t, {"returning"})
    /\ tasks' = [tasks EXCEPT ![t].status = "processing"]
    /\ Goto(t, "package")
    /\ UNCHANGED <<kA, kB, kOut>>
    /\ LegacyUnchanged

\* line 360 raises, lines 367-376; the download may have saved an image
DownloadRaise(t) ==
    /\ At(t, {"downloading", "returning"})
    /\ kA' = [kA EXCEPT !.status = "failed"]
    /\ tasks' = [tasks EXCEPT ![t].status = "failed",
                              ![t].error = "download error"]
    /\ \E n \in {kOut.images, Max2(kOut.images, 1)} :
          kOut' = [kOut EXCEPT !.images = n]
    /\ Goto(t, "ended")
    /\ UNCHANGED kB
    /\ LegacyUnchanged

\* lines 379-394: a round of the loop that leaves it
AwaitPoll(t) ==
    /\ At(t, {"await"})
    /\ kA.status \in {"done", "failed"}
    /\ IF kA.status = "failed"
       THEN /\ tasks' = [tasks EXCEPT ![t].status = "failed",
                                      ![t].error = "album download failed"]
            /\ Goto(t, "ended")
       ELSE /\ Goto(t, "package")
            /\ UNCHANGED tasks
    /\ UNCHANGED <<kA, kB, kOut>>
    /\ LegacyUnchanged

\* lines 396-431
PackageTask(t) ==
    /\ At(t, {"package"})
    /\ LET req == body[t].req[1]
           hash == tasks[t].cache_hash
           existing == get_artifact(kB, kA.album_id, hash, req.output_format)
       IN  IF existing = NoFile /\ kOut.images = 0
           THEN /\ tasks' = [tasks EXCEPT
                                ![t].status = "failed",
                                ![t].error = "no images found for packaging"]
                /\ UNCHANGED kB
           ELSE \E day \in {d \in {kB.today, kB.today + 1} :
                               /\ d <= MaxDay
                               /\ (kB.rule # "date" \/ existing # NoFile)
                                     => d = kB.today} :
                  LET dir == IF existing # NoFile THEN kB
                             ELSE build_artifact(kB, kA.album_id, req, hash, day)
                      filename == IF existing # NoFile THEN existing
                                  ELSE BuiltName(kB, kA.album_id, req, hash, day)
                  IN  /\ kB' = dir
                      /\ tasks' = [tasks EXCEPT
                                      ![t].status = "done",
                                      ![t].artifact_filename = filename,
                                      ![t].password =
                                          IF get_cached_password(dir, hash) # NoPwd
                                          THEN get_cached_password(dir, hash)
                                          ELSE @]
    /\ Goto(t, "ended")
    /\ UNCHANGED <<kA, kOut>>
    /\ LegacyUnchanged

LegacyThread(t) ==
    \/ DownloadCheck(t)
    \/ DownloadSaved(t)
    \/ on_after_album(t)
    \/ DownloadReturn(t)
    \/ DownloadRaise(t)
    \/ AwaitPoll(t)
    \/ PackageTask(t)

LegacyNext ==
    \/ \E req \in LegacyReqs : SubmitLegacy(req)
    \/ \E t \in TaskIds : LegacyThread(t)

LegacySpec == LegacyInit /\ [][LegacyNext]_vars

\* every started thread goes on running
LegacyLiveSpec ==
    /\ LegacyInit
    /\ [][LegacyNext]_vars
    /\ \A t \in 1..MaxLegacyTasks : WF_vars(LegacyThread(t))

(***************************************************************************)
(* Properties of the legacy server.                                        *)
(***************************************************************************)
LegacyDone(t) == tasks[t].status = "done"

\* the file a finished task names, as the directory holds it now
ArtifactOf(t) == kB.files[tasks[t].artifact_filename]

\* C36: under every naming rule the file a finished task names was built
\* with the parameters of the task's cache hash: a cache hit for a hash
\* gives a file built for that hash, and no build for another hash replaces
\* the file.
C36_OneFilePerHash ==
    \A t \in TaskIds : LegacyDone(t) => ArtifactOf(t).hash = tasks[t].cache_hash

\* the same under the rules that derive the name from the hash or draw it
C36_HashedNames ==
    kB.rule \in {"short_hash", "random"} => C36_OneFilePerHash

\* C37: a finished task whose artifact is encrypted under a generated
\* password carries that password in its status, also when submit answered
\* it from an artifact that was there.
C37_PasswordCarried ==
    \A t \in TaskIds :
        (LegacyDone(t) /\ ArtifactOf(t).password.kind = "generated") =>
            tasks[t].password = ArtifactOf(t).password

\* the same for the tasks that a packaging thread finished, under the rules
\* that keep one file per hash
C37_PackagedTasks ==
    kB.rule \in {"short_hash", "random"} =>
        \A t \in TaskIds :
            (LegacyDone(t) /\ body[t].pc = "ended"
                /\ ArtifactOf(t).password.kind = "generated") =>
                tasks[t].password = ArtifactOf(t).password

\* the threads inside _download_album
Downloading == {t \in TaskIds : At(t, {"downloading", "after_album", "returning"})}

LegacyEnded(t) == t \in TaskIds /\ tasks[t].status \in {"done", "failed"}

\* C39: at most one download of the album is active at a time, and a task
\* submitted while the album is downloading ends done or failed after the
\* download has ended, by return or by exception.
C39_OneDownloadWaitersEnd ==
    /\ [](Cardinality(Downloading) <= 1)
    /\ \A t \in 1..MaxLegacyTasks : At(t, {"await"}) ~> LegacyEnded(t)

\* the same for an album id that the album object of the download carries
\* unchanged
C39_SameId ==
    /\ [](Cardinality(Downloading) <= 1)
    /\ \A t \in 1..MaxLegacyTasks :
          (At(t, {"await"}) /\ AlbumObjectId(kA.album_id) = kA.album_id)
              ~> LegacyEnded(t)

=============================================================================
